---- MODULE Spec2Model ----
(***************************************************************************)
(* Model of the type-driven core of github.com/bjaus/api: the schema       *)
(* registry (schema.go), the contract build (openapi.go), the request      *)
(* classifier and binder (request.go, tags), the constraint validator      *)
(* (constraint.go), the codec registry and the typed handler pipeline      *)
(* (register.go, response.go).                                             *)
(*                                                                         *)
(* Go types are modelled by their reflect descriptors: a table from a type *)
(* identity to kind, display name, element type, fields and struct tags.   *)
(***************************************************************************)
EXTENDS Integers, Sequences, FiniteSets, TLC

(***************************************************************************)
(* Bounds of the model.                                                    *)
(***************************************************************************)
\* Depth of nested typeToSchema calls after which the Go stack is taken to
\* be exhausted (an unbounded recursion); every terminating walk of the
\* type table below stays far under it.
MaxDepth == 12
\* Number of typeToSchema calls made against one registry instance.
MaxCalls == 3

(***************************************************************************)
(* reflect: struct tags and fields.                                        *)
(***************************************************************************)
\* A Go map with no entries.
EmptyMap == [x \in {} |-> x]

NoTags == EmptyMap

\* f.Tag.Get(k): the empty string when the tag is absent.
Tag(f, k) == IF k \in DOMAIN f.tags THEN f.tags[k] ELSE ""

Fld(n, ty, tg) == [name |-> n, type |-> ty, exported |-> TRUE, tags |-> tg]
Unexp(n, ty, tg) == [name |-> n, type |-> ty, exported |-> FALSE, tags |-> tg]

\* Descriptor constructors: kind, display name (t.Name()), element type
\* (t.Elem()), key type (t.Key()), fields, well-known marker and the two
\* optional capability interfaces of schema.go.
Prim(k) ==
    [kind |-> k, name |-> k, elem |-> "", key |-> "", fields |-> <<>>,
     wellKnown |-> "", provider |-> FALSE, transformer |-> FALSE]
Known(k, n) ==
    [kind |-> k, name |-> n, elem |-> "", key |-> "", fields |-> <<>>,
     wellKnown |-> n, provider |-> FALSE, transformer |-> FALSE]
Ptr(e) ==
    [kind |-> "ptr", name |-> "", elem |-> e, key |-> "", fields |-> <<>>,
     wellKnown |-> "", provider |-> FALSE, transformer |-> FALSE]
SliceOf(n, e) ==
    [kind |-> "slice", name |-> n, elem |-> e, key |-> "", fields |-> <<>>,
     wellKnown |-> "", provider |-> FALSE, transformer |-> FALSE]
MapOf(k, e) ==
    [kind |-> "map", name |-> "", elem |-> e, key |-> k, fields |-> <<>>,
     wellKnown |-> "", provider |-> FALSE, transformer |-> FALSE]
Struct(n, fs) ==
    [kind |-> "struct", name |-> n, elem |-> "", key |-> "", fields |-> fs,
     wellKnown |-> "", provider |-> FALSE, transformer |-> FALSE]
ProviderStruct(n, fs) == [Struct(n, fs) EXCEPT !.provider = TRUE]
TransformerStruct(n, fs) == [Struct(n, fs) EXCEPT !.transformer = TRUE]

(***************************************************************************)
(* The type table: the Go types the model draws its inputs from.           *)
(***************************************************************************)
T1(k, v) == k :> v

\* F applied to the value of v, v being evaluated once (a Go local variable
\* assigned once and read several times).
Bind(v, F(_)) == CHOOSE y \in {F(x) : x \in {v}} : TRUE

SchemaTypes ==
       T1("string", Prim("string")) @@ T1("int", Prim("int"))
    @@ T1("uint", Prim("uint")) @@ T1("uint8", Prim("uint8"))
    @@ T1("bool", Prim("bool")) @@ T1("float64", Prim("float64"))
    @@ T1("any", Prim("interface")) @@ T1("chan", Prim("chan"))
    @@ T1("Duration", Known("int64", "Duration"))
    @@ T1("Time", Known("struct", "Time"))
    @@ T1("Void", Known("struct", "Void"))
    @@ T1("FileUpload", Known("struct", "FileUpload"))
    @@ T1("RawRequest", Struct("RawRequest", <<Fld("Request", "any", NoTags)>>))
    @@ T1("bytes", SliceOf("", "uint8"))
    @@ T1("[]string", SliceOf("", "string"))
    @@ T1("map[int]string", MapOf("int", "string"))
    \* type Widget struct { ID string `json:"id"` }
    @@ T1("Widget", Struct("Widget", <<Fld("ID", "string", "json" :> "id")>>))
    \* type Inner struct { Val string `json:"val" doc:"value" required:"true"` }
    @@ T1("Inner", Struct("Inner",
          <<Fld("Val", "string",
                ("json" :> "val") @@ ("doc" :> "value") @@ ("required" :> "true"))>>))
    \* type Outer struct { Child Inner `json:"child"`; When time.Time }
    @@ T1("Outer", Struct("Outer",
          <<Fld("Child", "Inner", "json" :> "child"),
            Fld("When", "Time", "json" :> "when")>>))
    \* type Node struct { Val string; Next *Node; Kids []Node; Index map[string]Node }
    @@ T1("Node", Struct("Node",
          <<Fld("Val", "string", ("json" :> "val") @@ ("minLength" :> "1")),
            Fld("Next", "*Node", "json" :> "next"),
            Fld("Kids", "[]Node", "json" :> "kids"),
            Fld("Index", "map[string]Node", "json" :> "index")>>))
    @@ T1("*Node", Ptr("Node"))
    @@ T1("[]Node", SliceOf("", "Node"))
    @@ T1("map[string]Node", MapOf("string", "Node"))
    \* type A struct { B *B `json:"b"` } ; type B struct { As []A `json:"as"` }
    @@ T1("A", Struct("A", <<Fld("B", "*B", "json" :> "b")>>))
    @@ T1("B", Struct("B", <<Fld("As", "[]A", "json" :> "as")>>))
    @@ T1("*B", Ptr("B"))
    @@ T1("[]A", SliceOf("", "A"))
    \* struct { W Widget `json:"w"`; N *Node `json:"n"`; hidden int }
    @@ T1("anonPair", Struct("",
          <<Fld("W", "Widget", "json" :> "w"),
            Fld("N", "*Node", "json" :> "n"),
            Unexp("hidden", "int", NoTags)>>))
    \* type Money struct{...}; func (*Money) JSONSchema() JSONSchema
    @@ T1("Money", ProviderStruct("Money", <<Fld("Cents", "int", "json" :> "cents")>>))
    \* type Stamped struct{...}; func (*Stamped) TransformSchema(JSONSchema) JSONSchema
    @@ T1("Stamped", TransformerStruct("Stamped",
          <<Fld("Name", "string", "json" :> "name"),
            Fld("Cost", "Money", "json" :> "cost")>>))
    \* package v1: type Foo struct { A string } ; package v2: type Foo struct { B int; Peer *v1.Foo }
    @@ T1("v1.Foo", Struct("Foo", <<Fld("A", "string", "json" :> "a")>>))
    @@ T1("v2.Foo", Struct("Foo",
          <<Fld("B", "int", "json" :> "b"),
            Fld("Peer", "*v1.Foo", "json" :> "peer")>>))
    @@ T1("*v1.Foo", Ptr("v1.Foo"))
    \* package east: type Bar struct { E string } ; package west: type Bar struct { W int }
    @@ T1("east.Bar", Struct("Bar", <<Fld("E", "string", "json" :> "e")>>))
    @@ T1("west.Bar", Struct("Bar", <<Fld("W", "int", "json" :> "w")>>))
    \* type PayloadReq struct { ID string `path:"id" required:"true"`;
    \*     Q string `query:"q"`; H string `header:"X-H"`; C string `cookie:"c"`;
    \*     Title string `form:"title" required:"true"`;
    \*     Name string `json:"name" required:"true"`; Plain int;
    \*     Secret string `json:"-"`; hidden int; api.RawRequest }
    @@ T1("PayloadReq", Struct("PayloadReq",
          <<Fld("ID", "string", ("path" :> "id") @@ ("required" :> "true")),
            Fld("Q", "string", "query" :> "q"),
            Fld("H", "string", "header" :> "X-H"),
            Fld("C", "string", "cookie" :> "c"),
            Fld("Title", "string", ("form" :> "title") @@ ("required" :> "true")),
            Fld("Name", "string", ("json" :> "name") @@ ("required" :> "true")),
            Fld("Plain", "int", NoTags),
            Fld("Secret", "string", "json" :> "-"),
            Unexp("hidden", "int", NoTags),
            Fld("RawRequest", "RawRequest", NoTags)>>))
    \* type RecList []RecList
    @@ T1("RecList", SliceOf("RecList", "RecList"))

\* Request types of typed routes.
RequestTypes ==
    \* struct { ID string `path:"id"`; Page int `query:"page" default:"1"` }
       T1("GetUserReq", Struct("GetUserReq",
          <<Fld("ID", "string", "path" :> "id"),
            Fld("Page", "int", ("query" :> "page") @@ ("default" :> "1"))>>))
    \* struct { Name string `json:"name" minLength:"3" maxLength:"5"`;
    \*          Age int `json:"age" minimum:"18" maximum:"120"`;
    \*          Tags []string `json:"tags" minItems:"1"`;
    \*          Role string `json:"role" enum:"admin,user"` }
    @@ T1("CreateUserReq", Struct("CreateUserReq",
          <<Fld("Name", "string",
                ("json" :> "name") @@ ("minLength" :> "3") @@ ("maxLength" :> "5")),
            Fld("Age", "int",
                ("json" :> "age") @@ ("minimum" :> "18") @@ ("maximum" :> "120")),
            Fld("Tags", "[]string", ("json" :> "tags") @@ ("minItems" :> "1")),
            Fld("Role", "string", ("json" :> "role") @@ ("enum" :> "admin,user"))>>))
    \* type Address struct { City string `json:"city" minLength:"2"` }
    @@ T1("Address", Struct("Address",
          <<Fld("City", "string", ("json" :> "city") @@ ("minLength" :> "2"))>>))
    \* struct { ID string `path:"id"`; Trace string `header:"X-Trace" default:"none"`;
    \*          Body struct { Name string `json:"name" minLength:"3"`;
    \*                        Address Address `json:"address"` } }
    @@ T1("UpdateUserReq", Struct("UpdateUserReq",
          <<Fld("ID", "string", "path" :> "id"),
            Fld("Trace", "string", ("header" :> "X-Trace") @@ ("default" :> "none")),
            Fld("Body", "UpdateBody", NoTags)>>))
    @@ T1("UpdateBody", Struct("",
          <<Fld("Name", "string", ("json" :> "name") @@ ("minLength" :> "3")),
            Fld("Address", "Address", "json" :> "address")>>))
    \* struct { Name string `json:"name" minLength:"3" pattern:"^[a-z]+$"`;
    \*          Address *Address `json:"address"`;
    \*          Secret string `json:"-" minLength:"10"`;
    \*          hidden string `minLength:"10"` }
    @@ T1("ProfileReq", Struct("ProfileReq",
          <<Fld("Name", "string",
                ("json" :> "name") @@ ("minLength" :> "3") @@ ("pattern" :> "^[a-z]+$")),
            Fld("Address", "*Address", "json" :> "address"),
            Fld("Secret", "string", ("json" :> "-") @@ ("minLength" :> "10")),
            Unexp("hidden", "string", "minLength" :> "10")>>))
    @@ T1("*Address", Ptr("Address"))
    \* struct { Q string `query:"q"`; Limit int `query:"limit" default:"10"`;
    \*          Debug bool `header:"X-Debug"`;
    \*          Session string `cookie:"sid" default:"anon"`;
    \*          Count uint `query:"count"` }
    @@ T1("SearchReq", Struct("SearchReq",
          <<Fld("Q", "string", "query" :> "q"),
            Fld("Limit", "int", ("query" :> "limit") @@ ("default" :> "10")),
            Fld("Debug", "bool", "header" :> "X-Debug"),
            Fld("Session", "string", ("cookie" :> "sid") @@ ("default" :> "anon")),
            Fld("Count", "uint", "query" :> "count")>>))
    \* struct { Title string `form:"title"`; File FileUpload `form:"file"` }
    @@ T1("UploadReq", Struct("UploadReq",
          <<Fld("Title", "string", "form" :> "title"),
            Fld("File", "FileUpload", "form" :> "file")>>))
    \* struct { ID int `path:"id"`; Note string `form:"note"`;
    \*          Body struct { Name string `json:"name" minLength:"3"`; ... } }
    @@ T1("UploadNoteReq", Struct("UploadNoteReq",
          <<Fld("ID", "int", "path" :> "id"),
            Fld("Note", "string", "form" :> "note"),
            Fld("Body", "UpdateBody", NoTags)>>))
    \* struct { api.RawRequest }
    @@ T1("RawReq", Struct("RawReq",
          <<Fld("RawRequest", "RawRequest", NoTags)>>))
    @@ T1("*GetUserReq", Ptr("GetUserReq"))
    \* struct { ID string `path:"id" query:"id" default:"zz"` }
    @@ T1("LookupReq", Struct("LookupReq",
          <<Fld("ID", "string",
                ("path" :> "id") @@ ("query" :> "id") @@ ("default" :> "zz"))>>))
    \* type Customer struct { Name string `json:"name" minLength:"3"`;
    \*                        Address Address `json:"address"` }
    \* struct { Customer Customer `json:"customer"`; Note string `json:"note" maxLength:"5"` }
    @@ T1("Customer", Struct("Customer",
          <<Fld("Name", "string", ("json" :> "name") @@ ("minLength" :> "3")),
            Fld("Address", "Address", "json" :> "address")>>))
    \* struct { ID string `path:"id" minLength:"3"`;
    \*          Title string `form:"title" minLength:"3" maxLength:"5"`;
    \*          Name string `json:"name" minLength:"3"` }
    @@ T1("ItemReq", Struct("ItemReq",
          <<Fld("ID", "string", ("path" :> "id") @@ ("minLength" :> "3")),
            Fld("Title", "string",
                ("form" :> "title") @@ ("minLength" :> "3") @@ ("maxLength" :> "5")),
            Fld("Name", "string", ("json" :> "name") @@ ("minLength" :> "3"))>>))
    \* the remaining kinds of fields a parameter tag can sit on
    @@ T1("int8", Prim("int8")) @@ T1("int16", Prim("int16"))
    @@ T1("int32", Prim("int32")) @@ T1("int64", Prim("int64"))
    @@ T1("float32", Prim("float32"))
    @@ T1("OrderReq", Struct("OrderReq",
          <<Fld("Customer", "Customer", "json" :> "customer"),
            Fld("Note", "string", ("json" :> "note") @@ ("maxLength" :> "5"))>>))

TypeTable == SchemaTypes @@ RequestTypes

TypeIds == DOMAIN TypeTable

(***************************************************************************)
(* strconv and strings on the tag values the type table uses.              *)
(***************************************************************************)
Numerals ==
    ("0" :> 0) @@ ("1" :> 1) @@ ("2" :> 2) @@ ("3" :> 3) @@ ("5" :> 5)
    @@ ("7" :> 7) @@ ("10" :> 10) @@ ("18" :> 18) @@ ("42" :> 42)
    @@ ("120" :> 120)

\* strconv.Atoi / strconv.ParseInt / strconv.ParseFloat succeed on numerals
\* only (the model uses integer-valued literals).
AtoiOk(s) == s \in DOMAIN Numerals
Atoi(s) == Numerals[s]

\* strings.Cut(tag, ","): the part before the first comma.
CutComma(s) ==
    CASE s = "name,omitempty" -> "name"
      [] s = ",omitempty" -> ""
      [] OTHER -> s

\* strings.Split(tag, ",")
SplitComma(s) ==
    CASE s = "admin,user" -> <<"admin", "user">>
      [] s = "a,b" -> <<"a", "b">>
      [] OTHER -> <<s>>

(***************************************************************************)
(* schema.go: JSONSchema nodes.                                            *)
(***************************************************************************)
NoProps == EmptyMap

\* The zero JSONSchema{}.
EmptySchema ==
    [type |-> "", format |-> "", enc |-> "", ref |-> "", desc |-> "",
     props |-> NoProps, items |-> <<>>, addl |-> <<>>, required |-> <<>>,
     cons |-> EmptyMap]

TypeSchema(ty) == [EmptySchema EXCEPT !.type = ty]
FormatSchema(ty, fm) == [EmptySchema EXCEPT !.type = ty, !.format = fm]
ArraySchema(it) == [EmptySchema EXCEPT !.type = "array", !.items = <<it>>]
MapSchema(v) == [EmptySchema EXCEPT !.type = "object", !.addl = <<v>>]
RefPrefix == "#/components/schemas/"
RefSchema(name) == [EmptySchema EXCEPT !.ref = name]
IsRef(s) == s.ref # ""

\* jsonFieldName
jsonFieldName(f) ==
    LET tag == Tag(f, "json") IN
    IF tag = "" THEN f.name
    ELSE IF CutComma(tag) = "" THEN f.name ELSE CutComma(tag)

paramTags == <<"path", "query", "header", "cookie">>

isParamFieldNoForm(f) ==
    \E i \in 1..Len(paramTags) : Tag(f, paramTags[i]) # ""

\* isParamField
isParamField(f) ==
    \/ \E i \in 1..Len(paramTags) : Tag(f, paramTags[i]) # ""
    \/ Tag(f, "form") # ""

IntConstraints == {"minLength", "maxLength", "minItems", "maxItems", "minimum", "maximum"}
TextConstraints == {"pattern", "enum", "default", "example"}

\* applyConstraintTags: the constraint keywords a field's tags put on its
\* property node; unparsable numeric tags are dropped.
applyConstraintTags(schema, f) ==
    LET ks == {k \in IntConstraints : Tag(f, k) # "" /\ AtoiOk(Tag(f, k))}
              \cup {k \in TextConstraints : Tag(f, k) # ""}
        new == [k \in ks |-> Tag(f, k)]
    IN [schema EXCEPT !.cons = new @@ @]

\* The schema a SchemaProvider type returns from JSONSchema().
ProviderSchema(t) == FormatSchema("string", "custom-provider")

TransformSchemaIdentity(s) == s

\* The schema a SchemaTransformer type makes of the inferred one.
TransformSchema(s) == [s EXCEPT !.desc = "transformed"]

WellKnownSchema(t) ==
    CASE t = "Time" -> FormatSchema("string", "date-time")
      [] t = "Duration" -> FormatSchema("string", "duration")
      [] t = "FileUpload" -> FormatSchema("string", "binary")
      [] OTHER -> EmptySchema

IntKinds == {"int", "int8", "int16", "int32", "int64"}
UintKinds == {"uint", "uint8", "uint16", "uint32", "uint64"}
FloatKinds == {"float32", "float64"}

(***************************************************************************)
(* schema.go: schemaRegistry.  A registry value is the pair of maps of the *)
(* Go struct plus ovf, set when the recursion ran out of stack, and order,  *)
(* the history of the writes to r.schemas (the types in the order they     *)
(* were entered), which the code does not keep and nothing here reads but  *)
(* the properties.                                                         *)
(***************************************************************************)
newSchemaRegistry ==
    [schemas |-> EmptyMap, defs |-> EmptyMap, ovf |-> FALSE, order |-> <<>>]

Ret(reg, out) == [reg |-> reg, out |-> out]

registerNameLate(reg, t, name) == reg

\* r.schemas[t] = name, done before recursing into the fields so that a
\* field of the same type finds the entry.
registerName(reg, t, name) ==
    [reg EXCEPT !.schemas = (t :> name) @@ @, !.order = Append(@, t)]

setDefDropped(defs, name, schema) == defs

setDefKeepFirst(defs, name, schema) == defs @@ (name :> schema)

\* r.defs[name] = schema: the entry under name is replaced whatever type
\* it was written for.
setDef(defs, name, schema) == (name :> schema) @@ defs

namedStructOutInlineFirst(existed, name, schema) ==
    IF existed THEN RefSchema(name) ELSE schema

\* What typeToSchema returns for a named struct, whether the type was in
\* the registry already (existed) or has just been given the definition
\* schema: the reference to its definitions entry.
namedStructOut(existed, name, schema) == RefSchema(name)

RECURSIVE regTypeToSchema(_, _, _)
RECURSIVE regStructFields(_, _, _, _, _)

\* schemaRegistry.structToSchema: the loop over the fields from index i on,
\* acc being the schema built so far.
regStructFields(reg, t, i, acc, d) ==
    LET fs == TypeTable[t].fields IN
    IF i > Len(fs) \/ reg.ovf THEN Ret(reg, acc)
    ELSE
      LET f == fs[i]
          name == jsonFieldName(f)
      IN
      IF ~f.exported \/ isParamField(f) \/ f.type = "RawRequest" \/ name = "-"
      THEN regStructFields(reg, t, i + 1, acc, d)
      ELSE
        Bind(regTypeToSchema(reg, f.type, d + 1), LAMBDA r :
          LET p0 == IF Tag(f, "doc") # "" THEN [r.out EXCEPT !.desc = Tag(f, "doc")]
                    ELSE r.out
              prop == applyConstraintTags(p0, f)
              acc1 == [acc EXCEPT !.props = (name :> prop) @@ @,
                                  !.required = IF Tag(f, "required") = "true"
                                               THEN Append(@, name) ELSE @]
          IN regStructFields(r.reg, t, i + 1, acc1, d))

regStructToSchema(reg, t, d) ==
    regStructFields(reg, t, 1, TypeSchema("object"), d)

\* schemaRegistry.typeToSchema, d being the depth of the call.
regTypeToSchema(reg, t, d) ==
    LET td == TypeTable[t] IN
    IF reg.ovf \/ d > MaxDepth THEN Ret([reg EXCEPT !.ovf = TRUE], EmptySchema)
    ELSE IF td.kind = "ptr" THEN regTypeToSchema(reg, td.elem, d + 1)
    ELSE IF td.wellKnown # "" THEN Ret(reg, WellKnownSchema(t))
    ELSE IF td.kind = "struct" /\ td.provider THEN Ret(reg, ProviderSchema(t))
    ELSE IF td.kind = "string" THEN Ret(reg, TypeSchema("string"))
    ELSE IF td.kind = "bool" THEN Ret(reg, TypeSchema("boolean"))
    ELSE IF td.kind \in IntKinds \cup UintKinds THEN Ret(reg, TypeSchema("integer"))
    ELSE IF td.kind \in FloatKinds THEN Ret(reg, TypeSchema("number"))
    ELSE IF td.kind = "slice" THEN
        IF TypeTable[td.elem].kind = "uint8"
        THEN Ret(reg, [EmptySchema EXCEPT !.type = "string", !.enc = "base64"])
        ELSE Bind(regTypeToSchema(reg, td.elem, d + 1),
                  LAMBDA r : Ret(r.reg, ArraySchema(r.out)))
    ELSE IF td.kind = "map" THEN
        IF TypeTable[td.key].kind # "string" THEN Ret(reg, TypeSchema("object"))
        ELSE Bind(regTypeToSchema(reg, td.elem, d + 1),
                  LAMBDA r : Ret(r.reg, MapSchema(r.out)))
    ELSE IF td.kind = "struct" THEN
        IF td.name # "" THEN
            IF t \in DOMAIN reg.schemas
            THEN Ret(reg, namedStructOut(TRUE, td.name, EmptySchema))
            ELSE
              Bind(regStructToSchema(registerName(reg, t, td.name), t, d + 1),
                LAMBDA r :
                  LET schema == IF td.transformer THEN TransformSchema(r.out)
                                ELSE r.out
                  IN Ret([r.reg EXCEPT !.defs = setDef(@, td.name, schema)],
                         namedStructOut(FALSE, td.name, schema)))
        ELSE regStructToSchema(reg, t, d + 1)
    ELSE Ret(reg, EmptySchema)

(***************************************************************************)
(* schema.go: the package-level typeToSchema, which inlines every struct   *)
(* and keeps no registry.  out is the schema, ovf tells that the recursion *)
(* ran out of stack.                                                       *)
(***************************************************************************)
PRet(out, ovf) == [out |-> out, ovf |-> ovf]

RECURSIVE typeToSchema(_, _)
RECURSIVE structFields(_, _, _, _)

\* structToSchema: the loop over the fields from index i on.
structFields(t, i, acc, d) ==
    LET fs == TypeTable[t].fields IN
    IF i > Len(fs) THEN PRet(acc, FALSE)
    ELSE
      LET f == fs[i]
          name == jsonFieldName(f)
      IN
      IF ~f.exported \/ isParamField(f) \/ f.type = "RawRequest" \/ name = "-"
      THEN structFields(t, i + 1, acc, d)
      ELSE
        Bind(typeToSchema(f.type, d + 1), LAMBDA r :
          LET p0 == IF Tag(f, "doc") # "" THEN [r.out EXCEPT !.desc = Tag(f, "doc")]
                    ELSE r.out
              prop == applyConstraintTags(p0, f)
              acc1 == [acc EXCEPT !.props = (name :> prop) @@ @,
                                  !.required = IF Tag(f, "required") = "true"
                                               THEN Append(@, name) ELSE @]
          IN IF r.ovf THEN PRet(EmptySchema, TRUE)
             ELSE structFields(t, i + 1, acc1, d))

structToSchema(t, d) == structFields(t, 1, TypeSchema("object"), d)

typeToSchema(t, d) ==
    LET td == TypeTable[t] IN
    IF d > MaxDepth THEN PRet(EmptySchema, TRUE)
    ELSE IF td.kind = "ptr" THEN typeToSchema(td.elem, d + 1)
    ELSE IF td.wellKnown # "" THEN PRet(WellKnownSchema(t), FALSE)
    ELSE IF td.kind = "string" THEN PRet(TypeSchema("string"), FALSE)
    ELSE IF td.kind = "bool" THEN PRet(TypeSchema("boolean"), FALSE)
    ELSE IF td.kind \in IntKinds \cup UintKinds THEN PRet(TypeSchema("integer"), FALSE)
    ELSE IF td.kind \in FloatKinds THEN PRet(TypeSchema("number"), FALSE)
    ELSE IF td.kind = "slice" THEN
        IF TypeTable[td.elem].kind = "uint8"
        THEN PRet([EmptySchema EXCEPT !.type = "string", !.enc = "base64"], FALSE)
        ELSE Bind(typeToSchema(td.elem, d + 1),
                  LAMBDA r : PRet(ArraySchema(r.out), r.ovf))
    ELSE IF td.kind = "map" THEN
        IF TypeTable[td.key].kind # "string" THEN PRet(TypeSchema("object"), FALSE)
        ELSE Bind(typeToSchema(td.elem, d + 1),
                  LAMBDA r : PRet(MapSchema(r.out), r.ovf))
    ELSE IF td.kind = "struct" THEN structToSchema(t, d + 1)
    ELSE PRet(EmptySchema, FALSE)

(***************************************************************************)
(* unnamed/part_007: tag predicates on a request type.                     *)
(***************************************************************************)
\* if t.Kind() == reflect.Pointer { t = t.Elem() }
Deref(t) == IF TypeTable[t].kind = "ptr" THEN TypeTable[t].elem ELSE t

IsStruct(t) == TypeTable[Deref(t)].kind = "struct"

\* hasParamTags
hasParamTags(t) ==
    /\ IsStruct(t)
    /\ \E i \in 1..Len(TypeTable[Deref(t)].fields) :
          LET f == TypeTable[Deref(t)].fields[i] IN
          /\ f.exported
          /\ \E k \in 1..Len(paramTags) : Tag(f, paramTags[k]) # ""

\* hasRawRequest
hasRawRequest(t) ==
    /\ IsStruct(t)
    /\ \E i \in 1..Len(TypeTable[Deref(t)].fields) :
          TypeTable[Deref(t)].fields[i].type = "RawRequest"

\* t.FieldByName("Body"): the index of the field, 0 when there is none.
BodyFieldIndex(t) ==
    LET fs == TypeTable[Deref(t)].fields
        is == {i \in 1..Len(fs) : fs[i].name = "Body"}
    IN IF is = {} THEN 0 ELSE CHOOSE i \in is : \A j \in is : i <= j

\* hasBodyField
hasBodyField(t) == IsStruct(t) /\ BodyFieldIndex(t) # 0

\* hasFormTags
hasFormTags(t) ==
    /\ IsStruct(t)
    /\ \E i \in 1..Len(TypeTable[Deref(t)].fields) :
          LET f == TypeTable[Deref(t)].fields[i] IN
          f.exported /\ Tag(f, "form") # ""

(***************************************************************************)
(* openapi.go: the contract build.                                         *)
(***************************************************************************)
errorSchemaName == "ProblemDetail"

\* errorResponseSchema, by its top-level shape.
errorResponseSchema ==
    [TypeSchema("object") EXCEPT
        !.props = [k \in {"type", "title", "status", "detail", "instance", "errors"}
                     |-> IF k = "status" THEN TypeSchema("integer")
                         ELSE IF k = "errors" THEN TypeSchema("array")
                         ELSE TypeSchema("string")],
        !.required = <<"status">>]

\* tagToIn
tagToIn(tag) ==
    CASE tag = "path" -> "path"
      [] tag = "query" -> "query"
      [] tag = "header" -> "header"
      [] OTHER -> "cookie"

\* toOpenAPIPath: strings.ReplaceAll(pattern, "...", "")
toOpenAPIPath(pattern) ==
    CASE pattern = "/files/{path...}" -> "/files/{path}"
      [] OTHER -> pattern

\* strings.ToLower on the method names.
ToLower(method) ==
    CASE method = "GET" -> "get"
      [] method = "POST" -> "post"
      [] method = "PUT" -> "put"
      [] method = "PATCH" -> "patch"
      [] method = "DELETE" -> "delete"
      [] OTHER -> method

\* strings.Contains(pattern, "{")
HasPathParam(pattern) == pattern \in {"/u/{id}", "/files/{path...}"}

\* extractParameters: one Parameter per (exported field, param tag) pair, in
\* field order then paramTags order; ovf when a field's schema recursed
\* without end.
RECURSIVE extractParametersFrom(_, _, _, _)
extractParametersFrom(t, i, k, acc) ==
    LET fs == TypeTable[t].fields IN
    IF i > Len(fs) THEN PRet(acc, FALSE)
    ELSE IF k > Len(paramTags) \/ ~fs[i].exported
         THEN extractParametersFrom(t, i + 1, 1, acc)
    ELSE
      LET f == fs[i]
          tagName == paramTags[k]
          val == Tag(f, tagName)
      IN
      IF val = "" THEN extractParametersFrom(t, i, k + 1, acc)
      ELSE
        Bind(typeToSchema(f.type, 0), LAMBDA r :
          LET p == [name |-> val, in |-> tagToIn(tagName),
                    schema |-> applyConstraintTags(r.out, f),
                    desc |-> Tag(f, "doc"),
                    required |-> (Tag(f, "required") = "true" \/ tagName = "path")]
          IN IF r.ovf THEN PRet(<<>>, TRUE)
             ELSE extractParametersFrom(t, i, k + 1, Append(acc, p)))

extractParameters(t) == extractParametersFrom(t, 1, 1, <<>>)

\* formFieldsToSchema
RECURSIVE formFieldsFrom(_, _, _)
formFieldsFrom(t, i, acc) ==
    LET fs == TypeTable[t].fields IN
    IF i > Len(fs) THEN PRet(acc, FALSE)
    ELSE
      LET f == fs[i]
          name == Tag(f, "form")
      IN
      IF ~f.exported \/ name = "" THEN formFieldsFrom(t, i + 1, acc)
      ELSE
        Bind(typeToSchema(f.type, 0), LAMBDA r :
          LET p0 == IF Tag(f, "doc") # "" THEN [r.out EXCEPT !.desc = Tag(f, "doc")]
                    ELSE r.out
              prop == applyConstraintTags(p0, f)
              acc1 == [acc EXCEPT !.props = (name :> prop) @@ @,
                                  !.required = IF Tag(f, "required") = "true"
                                               THEN Append(@, name) ELSE @]
          IN IF r.ovf THEN PRet(EmptySchema, TRUE)
             ELSE formFieldsFrom(t, i + 1, acc1))

formFieldsToSchema(t) == formFieldsFrom(t, 1, TypeSchema("object"))

NoBody == <<>>
BodyOf(ctype, schema) == <<[ctype |-> ctype, schema |-> schema, required |-> TRUE]>>

BodyMethods == {"POST", "PUT", "PATCH"}

\* extractRequestBody: the registry after the call and the RequestBody (nil
\* is NoBody).
extractRequestBody(t, method, reg) ==
    IF hasFormTags(t) THEN
        Bind(formFieldsToSchema(t), LAMBDA r :
          Ret([reg EXCEPT !.ovf = @ \/ r.ovf], BodyOf("multipart/form-data", r.out)))
    ELSE IF BodyFieldIndex(t) # 0 THEN
        Bind(regTypeToSchema(reg, TypeTable[t].fields[BodyFieldIndex(t)].type, 0),
             LAMBDA r : Ret(r.reg, BodyOf("application/json", r.out)))
    ELSE IF ~hasParamTags(t) /\ method \in BodyMethods THEN
        Bind(regTypeToSchema(reg, t, 0),
             LAMBDA r : Ret(r.reg, BodyOf("application/json", r.out)))
    ELSE Ret(reg, NoBody)

NoSchema == <<>>
ResponseObj(desc, schema) == [desc |-> desc, schema |-> schema]

responseSchemaInline(reg, t) ==
    Bind(typeToSchema(t, 0), LAMBDA r : Ret([reg EXCEPT !.ovf = @ \/ r.ovf], r.out))

\* buildOperation: the schema of the success response comes from the
\* registry of the build, reg.typeToSchema(ri.respType).
responseSchema(reg, t) == regTypeToSchema(reg, t, 0)

\* register: the default status of a route (204 for a Void response).
DefaultStatus(respType) == IF respType = "Void" THEN 204 ELSE 200

\* buildOperation: the registry after the call and the Operation.
buildOperation(ri, reg) ==
    LET withReq == ri.reqType # "Void"
        st0 == IF ri.status = 0 THEN 200 ELSE ri.status
        isVoid == ri.respType = "Void"
        status == IF isVoid /\ st0 = 200 THEN 204 ELSE st0
        errorCodes == {400, 500} \cup (IF HasPathParam(ri.pattern) THEN {404} ELSE {})
        errs == [c \in errorCodes |->
                   ResponseObj("error", <<RefSchema(errorSchemaName)>>)]
    IN
    Bind(IF withReq THEN extractParameters(ri.reqType) ELSE PRet(<<>>, FALSE),
      LAMBDA ps :
    Bind(IF withReq THEN extractRequestBody(ri.reqType, ri.method, reg)
         ELSE Ret(reg, NoBody),
      LAMBDA rb :
    Bind(IF isVoid THEN Ret([rb.reg EXCEPT !.ovf = @ \/ ps.ovf], NoSchema)
         ELSE Bind(responseSchema([rb.reg EXCEPT !.ovf = @ \/ ps.ovf], ri.respType),
                   LAMBDA r : Ret(r.reg, <<r.out>>)),
      LAMBDA rs :
        Ret(rs.reg,
            [parameters |-> ps.out,
             requestBody |-> rb.out,
             status |-> status,
             responses |-> errs @@
                 (status :> ResponseObj(IF isVoid THEN "No content"
                                        ELSE "Successful response", rs.out))]))))

\* Router.Spec: the loop over r.routes from index i on, threading the
\* registry and the paths map (keyed by path and lower-case method).
RECURSIVE specLoop(_, _, _, _)
specLoop(rs, i, reg, paths) ==
    IF i > Len(rs) \/ reg.ovf THEN Ret(reg, paths)
    ELSE
      LET ri == rs[i]
          key == <<toOpenAPIPath(ri.pattern), ToLower(ri.method)>>
      IN Bind(buildOperation(ri, reg), LAMBDA r :
           Bind((key :> r.out) @@ paths, LAMBDA paths1 :
             specLoop(rs, i + 1, r.reg, paths1)))

\* Router.Spec: a fresh registry seeded with the error schema, one
\* operation per route, components.schemas = reg.defs.
RouterSpec(rs) ==
    LET reg0 == [newSchemaRegistry EXCEPT
                    !.defs = errorSchemaName :> errorResponseSchema]
    IN Bind(specLoop(rs, 1, reg0, EmptyMap), LAMBDA r :
         [paths |-> r.out, components |-> r.reg.defs, registry |-> r.reg.schemas,
          ovf |-> r.reg.ovf])

(***************************************************************************)
(* The type graph, as schema generation walks it.                          *)
(***************************************************************************)
\* The fields schemaRegistry.structToSchema turns into properties.
SchemaFields(t) ==
    {i \in 1..Len(TypeTable[t].fields) :
        LET f == TypeTable[t].fields[i] IN
        /\ f.exported
        /\ ~isParamField(f)
        /\ f.type # "RawRequest"
        /\ jsonFieldName(f) # "-"}

\* A struct type that typeToSchema expands (neither well-known nor a
\* SchemaProvider); Registered: one that it also enters into the registry.
Expanded(t) ==
    /\ TypeTable[t].kind = "struct"
    /\ TypeTable[t].wellKnown = ""
    /\ ~TypeTable[t].provider
Registered(t) == Expanded(t) /\ TypeTable[t].name # ""

\* The types one typeToSchema call on t recurses into.
Succ(t) ==
    LET td == TypeTable[t] IN
    IF td.wellKnown # "" THEN {}
    ELSE IF td.kind = "ptr" THEN {td.elem}
    ELSE IF td.kind = "slice" /\ TypeTable[td.elem].kind # "uint8" THEN {td.elem}
    ELSE IF td.kind = "map" /\ TypeTable[td.key].kind = "string" THEN {td.elem}
    ELSE IF Expanded(t) THEN {td.fields[i].type : i \in SchemaFields(t)}
    ELSE {}

RECURSIVE Closure(_)
Closure(S) ==
    LET N == S \cup UNION {Succ(x) : x \in S}
    IN IF N = S THEN S ELSE Closure(N)

\* Types reachable from t in one or more steps.
ReachFrom(t) == Closure(Succ(t))

\* Named structs that reference themselves, directly or through a chain.
CyclicStructs == {t \in TypeIds : Registered(t) /\ t \in ReachFrom(t)}

\* Types whose walk never reaches a type that recurses without a registry
\* entry to stop it (a recursive named slice, map or pointer type).
RECURSIVE UnguardedLoop(_, _, _)
UnguardedLoop(t, seen, n) ==
    IF n = 0 THEN FALSE
    ELSE IF Registered(t) THEN FALSE
    ELSE IF t \in seen THEN TRUE
    ELSE \E u \in Succ(t) : UnguardedLoop(u, seen \cup {t}, n - 1)
Diverges(t) ==
    \E u \in {t} \cup ReachFrom(t) : UnguardedLoop(u, {}, Cardinality(TypeIds))

(***************************************************************************)
(* State.                                                                  *)
(***************************************************************************)
VARIABLES
    schemas,     \* schemaRegistry.schemas: type identity -> display name
    defs,        \* schemaRegistry.defs: display name -> JSONSchema
    regState,    \* "idle", or "crashed" once a call exhausted the stack
    calls,       \* number of typeToSchema calls made on the registry
    lastType,    \* argument of the latest call ("" before the first)
    lastOut,     \* schema the latest call returned
    firstOut,    \* per type, the schema its first call returned
    lastRepeat,  \* the latest call was for a type called before
    defsBefore,  \* defs as it was when the latest call was made
    regOrder     \* the types of schemas in the order they were entered

regVars == <<schemas, defs, regState, calls, lastType, lastOut, firstOut,
             lastRepeat, defsBefore, regOrder>>

VARIABLES
    routes,      \* Router.routes, in registration order
    specState,   \* "none", "built" after Spec() returned, "crashed"
    specDoc,     \* the document the latest Spec() returned
    builtFrom    \* Router.routes as they were at the latest Spec() call

buildVars == <<routes, specState, specDoc, builtFrom>>

(***************************************************************************)
(* Schema registry: one instance, typeToSchema called on it repeatedly.    *)
(***************************************************************************)
\* Types handed to typeToSchema by a caller.
RootTypes ==
    {"string", "bytes", "Time", "map[int]string", "Widget", "Outer", "Node",
     "[]Node", "A", "B", "anonPair", "Money", "Stamped", "v1.Foo", "v2.Foo",
     "east.Bar", "west.Bar", "PayloadReq",
     "RecList"}

RegInit ==
    /\ schemas = EmptyMap
    /\ defs = EmptyMap
    /\ regState = "idle"
    /\ calls = 0
    /\ lastType = ""
    /\ lastOut = EmptySchema
    /\ firstOut = EmptyMap
    /\ lastRepeat = FALSE
    /\ defsBefore = EmptyMap
    /\ regOrder = <<>>

\* The registry instance, as the calls made so far have left it.
TheRegistry ==
    [schemas |-> schemas, defs |-> defs, ovf |-> FALSE, order |-> regOrder]

\* reg.typeToSchema(t) runs to its return.
CallTypeToSchema(t) ==
    /\ regState = "idle"
    /\ calls < MaxCalls
    /\ \E r \in {regTypeToSchema(TheRegistry, t, 0)} :
          /\ ~r.reg.ovf
          /\ schemas' = r.reg.schemas
          /\ regOrder' = r.reg.order
          /\ defs' = r.reg.defs
          /\ lastOut' = r.out
          /\ firstOut' = IF t \in DOMAIN firstOut THEN firstOut
                         ELSE (t :> r.out) @@ firstOut
    /\ calls' = calls + 1
    /\ lastType' = t
    /\ lastRepeat' = (t \in DOMAIN firstOut)
    /\ defsBefore' = defs
    /\ UNCHANGED regState

\* reg.typeToSchema(t) recurses until the goroutine stack is exhausted: the
\* runtime ends the process.
CallOverflows(t) ==
    /\ regState = "idle"
    /\ calls < MaxCalls
    /\ regTypeToSchema(TheRegistry, t, 0).reg.ovf
    /\ regState' = "crashed"
    /\ calls' = calls + 1
    /\ lastType' = t
    /\ lastOut' = EmptySchema
    /\ lastRepeat' = (t \in DOMAIN firstOut)
    /\ defsBefore' = defs
    /\ UNCHANGED <<schemas, defs, firstOut, regOrder>>

(***************************************************************************)
(* Properties of the schema registry.                                      *)
(***************************************************************************)
Returned == regState = "idle" /\ lastType # ""

\* The types typeToSchema has been called on and returned for.
Called == DOMAIN firstOut

RepeatIsStable ==
    (Returned /\ lastRepeat) =>
        /\ lastOut = firstOut[lastType]
        /\ defs = defsBefore

\* The definitions table holds one entry per display name of a type in the
\* identity map, and the identity map holds the registered structs among
\* the types called and the types they reach.
OneEntryPerName ==
    Returned =>
        /\ DOMAIN defs = {schemas[u] : u \in DOMAIN schemas}
        /\ DOMAIN schemas =
             {u \in UNION {{c} \cup ReachFrom(c) : c \in Called} : Registered(u)}
        /\ \A u \in DOMAIN schemas : schemas[u] = TypeTable[u].name

\* A named struct in the sense of the registration rule of typeToSchema:
\* a struct kind with a display name that is not one of the well-known leaf
\* types, which are mapped to fixed fragments.
NamedStruct(t) ==
    /\ TypeTable[t].kind = "struct"
    /\ TypeTable[t].name # ""
    /\ TypeTable[t].wellKnown = ""

HasOwnEntry(t) ==
    /\ t \in DOMAIN schemas
    /\ TypeTable[t].name \in DOMAIN defs
    /\ lastOut = RefSchema(TypeTable[t].name)

\* C1 as stated: a repeated typeToSchema(T) returns an equal schema and
\* leaves the definitions table as the first call left it, and every named
\* struct T has exactly one definitions entry after its calls.
C1_AsStated ==
    /\ RepeatIsStable
    /\ OneEntryPerName
    /\ (Returned /\ NamedStruct(lastType)) => HasOwnEntry(lastType)

\* C1, amended: a repeated typeToSchema(T) returns an equal schema and
\* leaves the definitions table unchanged; a named struct T that does not
\* implement SchemaProvider has exactly one definitions entry after its
\* calls, and one that implements SchemaProvider is returned inline and has
\* no entry in the identity map.
C1_Idempotent ==
    /\ RepeatIsStable
    /\ OneEntryPerName
    /\ (Returned /\ NamedStruct(lastType) /\ ~TypeTable[lastType].provider)
          => HasOwnEntry(lastType)
    /\ (Returned /\ NamedStruct(lastType) /\ TypeTable[lastType].provider)
          => /\ lastType \notin DOMAIN schemas
             /\ lastOut = ProviderSchema(lastType)

\* A named struct with named structs below it was called a second time.
C1_Witness ==
    /\ Returned
    /\ lastRepeat
    /\ lastType = "Outer"
    /\ DOMAIN defs = {"Outer", "Inner"}

\* The schema structToSchema infers for the registered struct t, its fields
\* being resolved against the registry as it stands.
Inferred(t) ==
    regStructToSchema(TheRegistry, t, 1).out

HookStruct(t) ==
    NamedStruct(t) /\ (TypeTable[t].provider \/ TypeTable[t].transformer)

\* C19 as stated: a named struct that implements SchemaProvider is entered
\* into the identity map, its definitions entry is the provider's schema and
\* typeToSchema returns the reference to that entry; the entry of one that
\* implements SchemaTransformer is the transformed inferred schema.
C19_AsStated ==
    Returned =>
        \A t \in Called : HookStruct(t) =>
            /\ t \in DOMAIN schemas
            /\ TypeTable[t].name \in DOMAIN defs
            /\ firstOut[t] = RefSchema(TypeTable[t].name)
            /\ defs[TypeTable[t].name] =
                  IF TypeTable[t].provider THEN ProviderSchema(t)
                  ELSE [Inferred(t) EXCEPT !.desc = "transformed"]

\* C19, amended: typeToSchema returns the schema of a SchemaProvider struct
\* inline, enters the type into neither the identity map nor the
\* definitions table, and no definitions entry holds the provider's schema;
\* a named struct that implements SchemaTransformer only is registered,
\* returned by reference, and its definitions entry is the transformed
\* inferred schema.
C19_ProviderInline ==
    Returned =>
        /\ \A n \in DOMAIN defs : \A u \in TypeIds :
              TypeTable[u].kind = "struct" /\ TypeTable[u].provider
                 => /\ u \notin DOMAIN schemas
                    /\ defs[n] # ProviderSchema(u)
        /\ \A t \in Called : HookStruct(t) =>
              IF TypeTable[t].provider
              THEN /\ firstOut[t] = ProviderSchema(t)
                   /\ TypeTable[t].name \notin DOMAIN defs
              ELSE /\ t \in DOMAIN schemas
                   /\ firstOut[t] = RefSchema(TypeTable[t].name)
                   /\ TypeTable[t].name \in DOMAIN defs
                   /\ defs[TypeTable[t].name].desc = "transformed"
                   /\ defs[TypeTable[t].name] =
                         [Inferred(t) EXCEPT !.desc = "transformed"]

\* Both hooks have acted on one registry: the SchemaProvider struct Money
\* and the SchemaTransformer struct Stamped, which has a Money field, have
\* been called.
C19_Witness ==
    /\ Returned
    /\ {"Money", "Stamped"} \subseteq Called
    /\ "Stamped" \in DOMAIN defs
    /\ defs["Stamped"].props["cost"] = ProviderSchema("Money")

\* The place of the registered type t in the order of registration.
Pos(t) == CHOOSE i \in 1..Len(regOrder) : regOrder[i] = t

\* Two distinct registered named structs with one display name, u being
\* registered before w.
Colliding(u, w) ==
    /\ u \in DOMAIN schemas /\ w \in DOMAIN schemas
    /\ u # w
    /\ TypeTable[u].name = TypeTable[w].name
    /\ Pos(u) < Pos(w)

\* The definition typeToSchema writes for the registered type t.
DefinitionOf(t) ==
    IF TypeTable[t].transformer THEN TransformSchema(Inferred(t)) ELSE Inferred(t)

SameReference(u, w) ==
    /\ schemas[u] = schemas[w]
    /\ \A t \in {u, w} \cap Called : firstOut[t] = RefSchema(schemas[u])

\* C20 as stated: two registered named structs with one display name have
\* one reference name, and the definitions entry under it is the schema of
\* the one registered last, also when that one was registered while the
\* other was being expanded.
C20_AsStated ==
    Returned =>
        \A u, w \in DOMAIN schemas : Colliding(u, w) =>
            /\ SameReference(u, w)
            /\ defs[schemas[u]] = DefinitionOf(w)

\* C20, amended: two registered named structs with one display name have
\* one reference name, and the definitions entry under it is the schema of
\* the one whose definition was written last: the one registered last when
\* the two were reached one after the other, and the one registered first
\* when the other was reached while it was being expanded.
C20_LastWrittenWins ==
    Returned =>
        \A u, w \in DOMAIN schemas : Colliding(u, w) =>
            /\ SameReference(u, w)
            /\ defs[schemas[u]] =
                  IF w \in ReachFrom(u) THEN DefinitionOf(u) ELSE DefinitionOf(w)
            /\ DefinitionOf(u) # DefinitionOf(w)

\* v1.Foo was registered while v2.Foo, which has a *v1.Foo field, was being
\* expanded, and the entry Foo is the schema of v2.Foo.
C20_Witness ==
    /\ Returned
    /\ Colliding("v2.Foo", "v1.Foo")
    /\ lastType = "v1.Foo"
    /\ defs["Foo"] = DefinitionOf("v2.Foo")
    /\ "peer" \in DOMAIN defs["Foo"].props

\* The binding source of a field: one of the parameter sources or the form
\* when it carries that tag, Raw for the RawRequest marker, None otherwise.
BindingSources == {"path", "query", "header", "cookie", "form"}
FieldSource(f) ==
    IF \E src \in BindingSources : Tag(f, src) # ""
    THEN CHOOSE src \in BindingSources : Tag(f, src) # ""
    ELSE IF f.type = "RawRequest" THEN "raw"
    ELSE "none"

\* The fields of t that belong to the payload.
PayloadFields(t) ==
    {i \in 1..Len(TypeTable[t].fields) :
        /\ TypeTable[t].fields[i].exported
        /\ FieldSource(TypeTable[t].fields[i]) = "none"
        /\ Tag(TypeTable[t].fields[i], "json") # "-"}

\* The only registered type of its display name.
SoleOwner(u) ==
    \A w \in DOMAIN schemas : schemas[w] = schemas[u] => w = u

\* C23: the definition of a registered struct has one property per exported
\* field that carries no path, query, header, cookie or form tag, is not
\* the RawRequest marker and is not named "-" in JSON, and no other
\* property; its required list names only such fields.
C23_PayloadProperties ==
    Returned =>
        \A u \in DOMAIN schemas : SoleOwner(u) =>
            LET fs == TypeTable[u].fields
                def == defs[schemas[u]]
            IN /\ DOMAIN def.props = {jsonFieldName(fs[i]) : i \in PayloadFields(u)}
               /\ \A i \in 1..Len(fs) :
                     FieldSource(fs[i]) \in BindingSources =>
                        /\ \A n \in {fs[i].name} \cup {Tag(fs[i], src) : src \in BindingSources} :
                              /\ n \notin DOMAIN def.props
                              /\ \A k \in 1..Len(def.required) : def.required[k] # n
               /\ \A k \in 1..Len(def.required) :
                     \E i \in PayloadFields(u) :
                        /\ def.required[k] = jsonFieldName(fs[i])
                        /\ Tag(fs[i], "required") = "true"

\* The definition of PayloadReq, which has a field of every binding source,
\* has been generated.
C23_Witness ==
    /\ Returned
    /\ "PayloadReq" \in DOMAIN schemas
    /\ DOMAIN defs["PayloadReq"].props = {"name", "Plain"}
    /\ defs["PayloadReq"].required = <<"name">>

\* The node typeToSchema makes of a field of type ty refers to every
\* registered struct by reference: a pointer is unwrapped, a slice is an
\* array of it, a string-keyed map has it as additionalProperties.
RECURSIVE RefersByToken(_, _, _)
RefersByToken(node, ty, n) ==
    LET td == TypeTable[ty] IN
    IF n = 0 THEN FALSE
    ELSE IF td.kind = "ptr" THEN RefersByToken(node, td.elem, n - 1)
    ELSE IF td.kind = "slice" THEN
        /\ node.type = "array" /\ Len(node.items) = 1
        /\ RefersByToken(node.items[1], td.elem, n - 1)
    ELSE IF td.kind = "map" THEN
        /\ node.type = "object" /\ Len(node.addl) = 1
        /\ RefersByToken(node.addl[1], td.elem, n - 1)
    ELSE /\ Registered(ty)
         /\ node.ref = td.name
         /\ node.type = "" /\ node.props = NoProps
         /\ node.items = <<>> /\ node.addl = <<>>

\* The fields of t through which t references itself.
SelfRefFields(t) ==
    {i \in SchemaFields(t) :
        LET ty == TypeTable[t].fields[i].type IN t \in {ty} \cup ReachFrom(ty)}

\* C2: typeToSchema on a named struct that references itself, directly or
\* through a chain of named structs (behind pointers, slices or maps),
\* returns, and in the definition of every struct on the cycle the schema
\* of each self-referencing field is a reference token, not an expansion.
C2_CycleTerminates ==
    /\ lastType \in CyclicStructs => regState = "idle"
    /\ Returned =>
         \A t \in CyclicStructs \cap DOMAIN schemas :
            /\ TypeTable[t].name \in DOMAIN defs
            /\ \A i \in SelfRefFields(t) :
                 LET f == TypeTable[t].fields[i] IN
                 /\ jsonFieldName(f) \in DOMAIN defs[TypeTable[t].name].props
                 /\ RefersByToken(defs[TypeTable[t].name].props[jsonFieldName(f)],
                                  f.type, Cardinality(TypeIds))

\* The mutually recursive pair A -> *B -> []A has been generated from A.
C2_Witness ==
    /\ Returned
    /\ lastType = "A"
    /\ {"A", "B", "Node"} \subseteq DOMAIN defs

(***************************************************************************)
(* Contract build: routes are registered on a Router and Spec() is called. *)
(***************************************************************************)
\* Number of routes registered on the router.
MaxRoutes == 2

\* The (method, pattern) pairs routes are registered under; http.ServeMux
\* panics when a pair is registered twice.
RouteSlots == {<<"GET", "/a">>, <<"POST", "/b">>, <<"PUT", "/u/{id}">>}
RouteReqTypes == {"Void", "CreateUserReq", "UpdateUserReq"}
RouteRespTypes == {"Void", "Widget", "Outer", "Money", "RecList"}

NoDoc == [paths |-> EmptyMap, components |-> EmptyMap, registry |-> EmptyMap,
          ovf |-> FALSE]

BuildInit ==
    /\ routes = <<>>
    /\ specState = "none"
    /\ specDoc = NoDoc
    /\ builtFrom = <<>>

SlotUsed(slot) ==
    \E i \in 1..Len(routes) : <<routes[i].method, routes[i].pattern>> = slot

\* register[Req, Resp] followed by Router.addRoute.
RegisterRoute(slot, req, resp) ==
    /\ specState # "crashed"
    /\ Len(routes) < MaxRoutes
    /\ ~SlotUsed(slot)
    /\ routes' = Append(routes,
                   [method |-> slot[1], pattern |-> slot[2], reqType |-> req,
                    respType |-> resp, status |-> DefaultStatus(resp)])
    /\ UNCHANGED <<specState, specDoc, builtFrom>>

\* Router.Spec() runs to its return, or exhausts the stack in typeToSchema.
BuildSpec ==
    /\ specState # "crashed"
    /\ routes # <<>>
    /\ \E doc \in {RouterSpec(routes)} :
          /\ specState' = IF doc.ovf THEN "crashed" ELSE "built"
          /\ specDoc' = IF doc.ovf THEN NoDoc ELSE doc
    /\ builtFrom' = routes
    /\ UNCHANGED routes

BuildNext ==
    \/ \E slot \in RouteSlots, req \in RouteReqTypes, resp \in RouteRespTypes :
          RegisterRoute(slot, req, resp)
    \/ BuildSpec

\* The schema of the success response of the operation built for route i.
OpOf(i) == specDoc.paths[<<toOpenAPIPath(builtFrom[i].pattern),
                           ToLower(builtFrom[i].method)>>]
SuccessSchema(i) == OpOf(i).responses[OpOf(i).status].schema

SameNamedResp(i, j) ==
    /\ i # j
    /\ builtFrom[i].respType = builtFrom[j].respType
    /\ NamedStruct(builtFrom[i].respType)

SharedRef(i, j) ==
    LET name == TypeTable[builtFrom[i].respType].name IN
    /\ SuccessSchema(i) = <<RefSchema(name)>>
    /\ SuccessSchema(j) = <<RefSchema(name)>>
    /\ name \in DOMAIN specDoc.components
    /\ specDoc.components[name].type = "object"

\* The definitions of a document: the error schema and one entry per
\* display name of a type in the build's identity map.
OneEntryPerType ==
    DOMAIN specDoc.components =
        {errorSchemaName} \cup {specDoc.registry[u] : u \in DOMAIN specDoc.registry}

\* C10 as stated: two routes of one build that return the same named struct
\* type both get the $ref to its entry, and components.schemas holds one
\* entry for the type.
C10_AsStated ==
    specState = "built" =>
        /\ OneEntryPerType
        /\ \A i, j \in 1..Len(builtFrom) : SameNamedResp(i, j) => SharedRef(i, j)

\* C10, amended: the same holds for every named struct response type that
\* does not implement SchemaProvider; for one that does, both operations
\* carry the provider's schema inline and the type has no entry.
C10_SharedDefinition ==
    specState = "built" =>
        /\ OneEntryPerType
        /\ \A i, j \in 1..Len(builtFrom) :
              SameNamedResp(i, j) =>
                 IF TypeTable[builtFrom[i].respType].provider
                 THEN /\ SuccessSchema(i) = <<ProviderSchema(builtFrom[i].respType)>>
                      /\ SuccessSchema(j) = SuccessSchema(i)
                      /\ builtFrom[i].respType \notin DOMAIN specDoc.registry
                 ELSE SharedRef(i, j)

\* Two routes returning Outer have been built into one document.
C10_Witness ==
    /\ specState = "built"
    /\ Len(builtFrom) = 2
    /\ builtFrom[1].respType = "Outer"
    /\ builtFrom[2].respType = "Outer"
    /\ DOMAIN specDoc.components = {errorSchemaName, "Outer", "Inner"}

\* C21 as stated: schema generation is total; no Router.Spec call on any
\* set of routes exhausts the stack in typeToSchema, whether the types of
\* the routes are cyclic or not.
C21_AsStated == specState # "crashed"

(***************************************************************************)
(* Router.Spec calls running at the same time.  A schemaRegistry is an     *)
(* object on the heap; a call holds the pointer newSchemaRegistry returned *)
(* in its local variable reg and goes through r.routes one route at a      *)
(* time.                                                                   *)
(***************************************************************************)
MaxBuilds == 2
MaxHeapRoutes == 2

Builds == 1..MaxBuilds

\* The routes the router of these builds is given.
HeapRoutes ==
    {[method |-> "GET", pattern |-> "/a", reqType |-> "CreateUserReq",
      respType |-> "Widget", status |-> 200],
     [method |-> "POST", pattern |-> "/b", reqType |-> "CreateUserReq",
      respType |-> "Outer", status |-> 200],
     [method |-> "POST", pattern |-> "/r", reqType |-> "RawReq",
      respType |-> "Stamped", status |-> 200],
     [method |-> "GET", pattern |-> "/n", reqType |-> "Void",
      respType |-> "Node", status |-> 200]}

VARIABLES
    hpRoutes,    \* Router.routes
    heap,        \* the schemaRegistry objects allocated so far, by address
    run          \* per Spec call: pc, reg (its local pointer, 0 once gone),
                 \* used (the object it was given), the routes it ranges
                 \* over, the loop index, spec.Paths and the document

hpVars == <<hpRoutes, heap, run>>

IdleRun ==
    [pc |-> "idle", reg |-> 0, used |-> 0, routes |-> <<>>, i |-> 0,
     paths |-> EmptyMap, doc |-> NoDoc]

HpInit ==
    /\ hpRoutes = <<>>
    /\ heap = <<>>
    /\ run = [b \in Builds |-> IdleRun]

sharedRegistryAt(h) == 1

\* reg := newSchemaRegistry(): the address of the object the call
\* allocates, one that no earlier call was given.
newRegistryAt(h) == Len(h) + 1

\* Routes are registered while the router is set up, before it is used.
HpRegister(ri) ==
    /\ \A b \in Builds : run[b].pc = "idle"
    /\ Len(hpRoutes) < MaxHeapRoutes
    /\ \A k \in 1..Len(hpRoutes) : hpRoutes[k] # ri
    /\ hpRoutes' = Append(hpRoutes, ri)
    /\ UNCHANGED <<heap, run>>

\* Spec() up to the loop: the registry is allocated and seeded with the
\* error schema.
SpecStart(b) ==
    /\ run[b].pc = "idle"
    /\ hpRoutes # <<>>
    /\ \E a \in {newRegistryAt(heap)} :
          /\ heap' = [k \in 1..(IF a > Len(heap) THEN a ELSE Len(heap)) |->
                        IF k = a
                        THEN [(IF a > Len(heap) THEN newSchemaRegistry ELSE heap[a])
                                EXCEPT !.defs = setDef(@, errorSchemaName,
                                                       errorResponseSchema)]
                        ELSE heap[k]]
          /\ run' = [run EXCEPT ![b] = [IdleRun EXCEPT !.pc = "running", !.reg = a,
                                          !.used = a, !.routes = hpRoutes, !.i = 1]]
    /\ UNCHANGED hpRoutes

\* One turn of the loop: buildOperation(ri, reg) and the store to spec.Paths.
SpecStep(b) ==
    /\ run[b].pc = "running"
    /\ run[b].i <= Len(run[b].routes)
    /\ \E r \in {buildOperation(run[b].routes[run[b].i], heap[run[b].reg])} :
          LET ri == run[b].routes[run[b].i]
              key == <<toOpenAPIPath(ri.pattern), ToLower(ri.method)>>
          IN /\ heap' = [heap EXCEPT ![run[b].reg] = r.reg]
             /\ run' = [run EXCEPT ![b].i = @ + 1,
                                    ![b].paths = (key :> r.out) @@ @]
    /\ UNCHANGED hpRoutes

\* The loop is over: Components.Schemas = reg.defs, the document is
\* returned and reg goes out of scope.
SpecReturn(b) ==
    /\ run[b].pc = "running"
    /\ run[b].i > Len(run[b].routes)
    /\ run' = [run EXCEPT ![b].pc = "done", ![b].reg = 0,
                           ![b].doc = [paths |-> run[b].paths,
                                       components |-> heap[run[b].reg].defs,
                                       registry |-> heap[run[b].reg].schemas,
                                       ovf |-> FALSE]]
    /\ UNCHANGED <<hpRoutes, heap>>

HpNext ==
    \/ \E ri \in HeapRoutes : HpRegister(ri)
    \/ \E b \in Builds : SpecStart(b)
    \/ \E b \in Builds : SpecStep(b)
    \/ \E b \in Builds : SpecReturn(b)

\* The registry a Spec call starts its loop with.
SeededRegistry ==
    [newSchemaRegistry EXCEPT !.defs = errorSchemaName :> errorResponseSchema]

\* C25: every Spec call works on a registry object of its own, which holds
\* nothing but the error schema when the loop starts, so no two calls,
\* running at the same time or one after the other, read or write the same
\* identity map or definitions table; the document of a call is the one a
\* call running alone makes of the routes, and two calls on the same routes
\* return equal documents.
C25_OwnRegistry ==
    /\ \A b, c \in Builds :
          (b # c /\ run[b].pc # "idle" /\ run[c].pc # "idle")
             => run[b].used # run[c].used
    /\ \A b \in Builds :
          /\ (run[b].pc = "running" /\ run[b].i = 1)
                => heap[run[b].reg] = SeededRegistry
          /\ run[b].pc = "running" => run[b].reg = run[b].used
          /\ run[b].pc = "done" =>
                /\ run[b].reg = 0
                /\ run[b].doc = RouterSpec(run[b].routes)
    /\ \A b, c \in Builds :
          (run[b].pc = "done" /\ run[c].pc = "done" /\ run[b].routes = run[c].routes)
             => run[b].doc = run[c].doc

\* Two Spec calls are in their loops at the same time, each with one route
\* behind it and one to go.
C25_Witness ==
    /\ \A b \in {1, 2} :
          /\ run[b].pc = "running"
          /\ run[b].i = 2
          /\ Len(run[b].routes) = 2
    /\ heap[run[1].reg].schemas # EmptyMap
    /\ heap[run[2].reg].schemas # EmptyMap

\* The names the reference nodes in schema s point to.
RECURSIVE RefsOf(_)
RefsOf(s) ==
    (IF IsRef(s) THEN {s.ref} ELSE {})
    \cup UNION {RefsOf(s.props[k]) : k \in DOMAIN s.props}
    \cup UNION {RefsOf(s.items[k]) : k \in 1..Len(s.items)}
    \cup UNION {RefsOf(s.addl[k]) : k \in 1..Len(s.addl)}

\* The names the schemas of operation op point to.
OpRefs(op) ==
    UNION {RefsOf(op.parameters[k].schema) : k \in 1..Len(op.parameters)}
    \cup UNION {RefsOf(op.requestBody[k].schema) : k \in 1..Len(op.requestBody)}
    \cup UNION {UNION {RefsOf(op.responses[c].schema[k]) :
                         k \in 1..Len(op.responses[c].schema)} :
                 c \in DOMAIN op.responses}

PathRefs(paths) == UNION {OpRefs(paths[k]) : k \in DOMAIN paths}
TableRefs(table) == UNION {RefsOf(table[n]) : n \in DOMAIN table}

\* C26: between the typeToSchema calls of a build and in its document,
\* every reference of an operation and of a definitions entry names an
\* entry of the definitions table, and every type of the identity map has
\* its name in the table.
C26_ReferencesResolve ==
    /\ \A a \in 1..Len(heap) :
          /\ TableRefs(heap[a].defs) \subseteq DOMAIN heap[a].defs
          /\ \A u \in DOMAIN heap[a].schemas :
                heap[a].schemas[u] \in DOMAIN heap[a].defs
    /\ \A b \in Builds :
          /\ run[b].pc = "running" =>
                PathRefs(run[b].paths) \subseteq DOMAIN heap[run[b].reg].defs
          /\ run[b].pc = "done" =>
                /\ PathRefs(run[b].doc.paths) \subseteq DOMAIN run[b].doc.components
                /\ TableRefs(run[b].doc.components)
                      \subseteq DOMAIN run[b].doc.components

\* A document with references to the cyclic struct Node and to Inner, which
\* is referenced from the entry Outer only, has been returned.
C26_Witness ==
    \E b \in Builds :
        /\ run[b].pc = "done"
        /\ {"Node", "Outer", "Inner", errorSchemaName}
              \subseteq PathRefs(run[b].doc.paths) \cup TableRefs(run[b].doc.components)
        /\ "Node" \in RefsOf(run[b].doc.components["Node"])
        /\ "Inner" \notin PathRefs(run[b].doc.paths)

(***************************************************************************)
(* group.go: the tags of the routes of a Group.  A slice is a header (the  *)
(* address of its backing array, 0 for nil, with len and cap) and the      *)
(* arrays live on a heap; append is the built-in of the gc runtime: it     *)
(* writes in place while the capacity suffices and otherwise moves to a    *)
(* new array of twice the capacity, or of the length needed when that is   *)
(* more (growslice, for the sizes of the model, where no rounding to a     *)
(* size class occurs).                                                     *)
(***************************************************************************)
MaxGroupOptions == 3
MaxGroupRoutes == 2

NilSlice == [arr |-> 0, len |-> 0, cap |-> 0]

\* The elements of slice sl.
SliceValue(arrays, sl) == [k \in 1..sl.len |-> arrays[sl.arr][k]]

\* growslice: the capacity of the new array.
GrownCap(oldCap, newLen) == IF newLen > 2 * oldCap THEN newLen ELSE 2 * oldCap

\* append(sl, xs...): the heap after the call and the slice returned.
appendSlice(arrays, sl, xs) ==
    LET newLen == sl.len + Len(xs) IN
    IF newLen <= sl.cap
    THEN [arrays |-> [arrays EXCEPT ![sl.arr] =
                         [k \in 1..sl.cap |->
                            IF k > sl.len /\ k <= newLen THEN xs[k - sl.len] ELSE @[k]]],
          slice |-> [sl EXCEPT !.len = newLen]]
    ELSE LET c == GrownCap(sl.cap, newLen)
             old == SliceValue(arrays, sl)
         IN [arrays |-> Append(arrays,
                           [k \in 1..c |-> IF k <= sl.len THEN old[k]
                                           ELSE IF k <= newLen THEN xs[k - sl.len]
                                           ELSE ""]),
             slice |-> [arr |-> Len(arrays) + 1, len |-> newLen, cap |-> c]]

\* ri.tags = append(g.tags, ri.tags...)
groupRouteTags(arrays, groupTags, own) == appendSlice(arrays, groupTags, own)

VARIABLES
    arrays,      \* the backing arrays allocated so far, by address
    gTags,       \* Group.tags
    gOptions,    \* number of WithGroupTags options applied
    gRoutes      \* Router.routes: per route its tags (a slice), the tags the
                 \* route was registered with and the value of tags as stored

grpVars == <<arrays, gTags, gOptions, gRoutes>>

GrpInit ==
    /\ arrays = <<>>
    /\ gTags = NilSlice
    /\ gOptions = 0
    /\ gRoutes = <<>>

GroupTagChoices == {<<"a">>, <<"a", "b">>}
RouteTagChoices == {<<>>, <<"x">>, <<"y">>}

\* Router.Group applies WithGroupTags(tags...): g.tags = append(g.tags, tags...)
WithGroupTags(tags) ==
    /\ gRoutes = <<>>
    /\ gOptions < MaxGroupOptions
    /\ \E r \in {appendSlice(arrays, gTags, tags)} :
          /\ arrays' = r.arrays
          /\ gTags' = r.slice
    /\ gOptions' = gOptions + 1
    /\ UNCHANGED gRoutes

\* Group.addRoute for a route registered with WithTags(own...), followed by
\* Router.addRoute, which stores the routeInfo.
GroupAddRoute(own) ==
    /\ Len(gRoutes) < MaxGroupRoutes
    /\ \E r \in {groupRouteTags(arrays, gTags, own)} :
          /\ arrays' = r.arrays
          /\ gRoutes' = Append(gRoutes,
                           [tags |-> r.slice, own |-> own,
                            stored |-> SliceValue(r.arrays, r.slice)])
    /\ UNCHANGED <<gTags, gOptions>>

GrpNext ==
    \/ \E tags \in GroupTagChoices : WithGroupTags(tags)
    \/ \E own \in RouteTagChoices : GroupAddRoute(own)

\* C27 as stated: the tags of every route registered on the group are the
\* group's tags followed by the route's own, as they were stored when the
\* route was registered, whatever was registered on the group afterwards.
C27_AsStated ==
    \A k \in 1..Len(gRoutes) :
        /\ gRoutes[k].stored = SliceValue(arrays, gTags) \o gRoutes[k].own
        /\ SliceValue(arrays, gRoutes[k].tags) = gRoutes[k].stored

(***************************************************************************)
(* Go values.  A string is a string, an integer an integer, a slice a      *)
(* sequence, a struct a function from field names to values, a pointer or  *)
(* interface the empty sequence (nil) or the one-element sequence of what  *)
(* it points to.                                                           *)
(***************************************************************************)
Nil == <<>>
IsNil(v) == Len(v) = 0
PointerTo(v) == <<v>>

KindOf(t) == TypeTable[t].kind

\* The zero value of a type (what new(T) holds).
RECURSIVE Zero(_)
RECURSIVE ZeroFields(_, _)
ZeroFields(fs, i) ==
    IF i > Len(fs) THEN EmptyMap
    ELSE (fs[i].name :> Zero(fs[i].type)) @@ ZeroFields(fs, i + 1)

Zero(t) ==
    CASE KindOf(t) = "string" -> ""
      [] KindOf(t) \in IntKinds \cup UintKinds \cup FloatKinds -> 0
      [] KindOf(t) = "bool" -> FALSE
      [] KindOf(t) = "struct" -> ZeroFields(TypeTable[t].fields, 1)
      [] OTHER -> Nil

\* Values the validator is run on, by type.
StrVals == {"", "a", "admin", "abcdef"}
IntVals == {0, 18, 121}

RECURSIVE ValuesOf(_)
RECURSIVE StructValues(_, _)
StructValues(fs, i) ==
    IF i > Len(fs) THEN {EmptyMap}
    ELSE {(fs[i].name :> x) @@ rest :
             x \in ValuesOf(fs[i].type), rest \in StructValues(fs, i + 1)}

ValuesOf(t) ==
    CASE KindOf(t) = "string" -> StrVals
      [] KindOf(t) \in IntKinds \cup UintKinds \cup FloatKinds -> IntVals
      [] KindOf(t) = "bool" -> BOOLEAN
      [] KindOf(t) = "slice" -> {<<>>, <<"x">>}
      [] KindOf(t) = "ptr" -> {Nil} \cup {PointerTo(v) : v \in ValuesOf(TypeTable[t].elem)}
      [] KindOf(t) = "struct" -> StructValues(TypeTable[t].fields, 1)
      [] OTHER -> {Nil}

(***************************************************************************)
(* constraint.go: the constraint validator.                                *)
(***************************************************************************)
\* regexp.MatchString on the patterns of the type table: ok tells that the
\* pattern compiled, matched that the value matches it.
MatchString(pattern, val) ==
    CASE pattern = "^[a-z]+$" -> [ok |-> TRUE, matched |-> val \in {"a", "admin", "abcdef"}]
      [] pattern = "[" -> [ok |-> FALSE, matched |-> FALSE]
      [] OTHER -> [ok |-> TRUE, matched |-> TRUE]

\* ValidationError{Field, Message}: the message is kept by the keyword of
\* the constraint it reports.
ValidationError(path, rule) == [field |-> path, rule |-> rule]

\* One optional violation as a sequence of zero or one ValidationError.
ErrIfNever(cond, path, rule) == <<>>

ErrIf(cond, path, rule) == IF cond THEN <<ValidationError(path, rule)>> ELSE <<>>

\* isNumericKind
isNumericKind(k) == k \in IntKinds \cup UintKinds \cup FloatKinds

\* checkFieldConstraints: the violations of one field, in the order the
\* checks are made.
checkFieldConstraints(f, fv, path) ==
    LET k == KindOf(f.type)
        numTag(key) == Tag(f, key) # "" /\ AtoiOk(Tag(f, key))
        str == IF k # "string" THEN <<>>
               ELSE ErrIf(numTag("minLength") /\ Len(fv) < Atoi(Tag(f, "minLength")),
                          path, "minLength")
                 \o ErrIf(numTag("maxLength") /\ Len(fv) > Atoi(Tag(f, "maxLength")),
                          path, "maxLength")
                 \o ErrIf(/\ Tag(f, "pattern") # ""
                          /\ MatchString(Tag(f, "pattern"), fv).ok
                          /\ ~MatchString(Tag(f, "pattern"), fv).matched,
                          path, "pattern")
        num == IF ~isNumericKind(k) THEN <<>>
               ELSE ErrIf(numTag("minimum") /\ fv < Atoi(Tag(f, "minimum")),
                          path, "minimum")
                 \o ErrIf(numTag("maximum") /\ fv > Atoi(Tag(f, "maximum")),
                          path, "maximum")
        enum == IF k # "string" \/ Tag(f, "enum") = "" THEN <<>>
                ELSE LET allowed == SplitComma(Tag(f, "enum"))
                     IN ErrIf(\A i \in 1..Len(allowed) : allowed[i] # fv, path, "enum")
        items == IF k # "slice" THEN <<>>
                 ELSE ErrIf(numTag("minItems") /\ Len(fv) < Atoi(Tag(f, "minItems")),
                            path, "minItems")
                   \o ErrIf(numTag("maxItems") /\ Len(fv) > Atoi(Tag(f, "maxItems")),
                            path, "maxItems")
    IN str \o num \o enum \o items

\* The nested struct collectConstraintErrors descends into after checking
\* field f: fv itself when fv.Kind() is Struct and f is no parameter field.
nestedStruct(f, fv) ==
    [into |-> KindOf(f.type) = "struct" /\ ~isParamField(f),
     type |-> f.type, value |-> fv]

skipFieldBinding(f, name) ==
    ~f.exported \/ name = "-" \/ isParamField(f) \/ Tag(f, "form") # ""

\* The fields the walk passes over before looking at their type: the
\* unexported ones and those named "-" in JSON.
skipField(f, name) == ~f.exported \/ name = "-"

fieldPathFlat(prefix, name) == name

\* path := name; if prefix != "" { path = prefix + "." + name }
fieldPath(prefix, name) == IF prefix # "" THEN prefix \o "." \o name ELSE name

\* collectConstraintErrors: the loop over the fields of rv from index i on,
\* errs being the violations appended so far.
RECURSIVE collectFrom(_, _, _, _, _)
collectFrom(t, rv, prefix, i, errs) ==
    LET fs == TypeTable[t].fields IN
    IF i > Len(fs) THEN errs
    ELSE
      LET f == fs[i]
          fv == rv[f.name]
          name == jsonFieldName(f)
          path == fieldPath(prefix, name)
      IN
      IF skipField(f, name) THEN collectFrom(t, rv, prefix, i + 1, errs)
      ELSE IF f.name = "Body" /\ KindOf(f.type) = "struct" THEN
          Bind(collectFrom(f.type, fv, "body", 1, errs), LAMBDA e :
            collectFrom(t, rv, prefix, i + 1, e))
      ELSE IF f.type = "RawRequest" THEN collectFrom(t, rv, prefix, i + 1, errs)
      ELSE
          Bind(errs \o checkFieldConstraints(f, fv, path), LAMBDA e1 :
            LET n == nestedStruct(f, fv) IN
            Bind(IF n.into THEN collectFrom(n.type, n.value, path, 1, e1) ELSE e1,
                 LAMBDA e2 : collectFrom(t, rv, prefix, i + 1, e2)))

collectConstraintErrors(t, rv, prefix) == collectFrom(t, rv, prefix, 1, <<>>)

\* No error (nil).  An error is kept by its status, its kind, its list of
\* violations and the count its detail states.
NoError == [isErr |-> FALSE, status |-> 0, kind |-> "", errors |-> <<>>, count |-> 0]

\* validateConstraints(v) for a v of static type t: nil, or the
\* ProblemDetail with status 400 that carries every violation.
validateConstraints(t, v) ==
    LET nilPtr == KindOf(t) = "ptr" /\ IsNil(v)
        st == Deref(t)
        rv == IF KindOf(t) = "ptr" /\ ~nilPtr THEN v[1] ELSE v
    IN IF nilPtr \/ KindOf(st) # "struct" THEN NoError
       ELSE Bind(collectConstraintErrors(st, rv, ""), LAMBDA errs :
              IF Len(errs) > 0
              THEN [isErr |-> TRUE, status |-> 400, kind |-> "validation",
                    errors |-> errs, count |-> Len(errs)]
              ELSE NoError)

VARIABLES
    valType,     \* static type of the value handed to validateConstraints
    valInput,    \* the value
    valState,    \* "none" before the first call, "done" after a call
    valResult    \* what the latest call returned

valVars == <<valType, valInput, valState, valResult>>

\* Types validateConstraints is called on.
ValidatedTypes ==
    {"CreateUserReq", "UpdateUserReq", "ProfileReq", "OrderReq", "ItemReq",
     "*GetUserReq", "string"}

ValInit ==
    /\ valType = "string"
    /\ valInput = ""
    /\ valState = "none"
    /\ valResult = NoError

\* validateConstraints(v) runs to its return.  It reads nothing but its
\* argument, so a behaviour makes one call.
ValidateValue(t, v) ==
    /\ valState = "none"
    /\ valType' = t
    /\ valInput' = v
    /\ valState' = "done"
    /\ valResult' = validateConstraints(t, v)

ValNext == \E t \in ValidatedTypes : \E v \in ValuesOf(t) : ValidateValue(t, v)

(***************************************************************************)
(* Properties of the validator.                                            *)
(***************************************************************************)
\* The (field path, constraint) pairs a value violates anywhere: in the
\* fields of the value, of its Body, of nested structs and of structs its
\* pointers lead to.  A path is the sequence of Go field names.
RECURSIVE ViolatedPairs(_, _, _)
ViolatedPairs(t, rv, at) ==
    UNION {
      LET f == TypeTable[t].fields[i]
          fv == rv[f.name]
          here == Append(at, f.name)
          own == checkFieldConstraints(f, fv, "")
          isPtr == KindOf(f.type) = "ptr"
          inner == IF isPtr THEN TypeTable[f.type].elem ELSE f.type
      IN {<<here, own[k].rule>> : k \in 1..Len(own)}
         \cup (IF KindOf(inner) = "struct" /\ (isPtr => ~IsNil(fv))
               THEN ViolatedPairs(inner, IF isPtr THEN fv[1] ELSE fv, here)
               ELSE {})
      : i \in {j \in 1..Len(TypeTable[t].fields) :
                  /\ TypeTable[t].fields[j].exported
                  /\ jsonFieldName(TypeTable[t].fields[j]) # "-"
                  /\ TypeTable[t].fields[j].type # "RawRequest"} }

ValidatedStruct == valState = "done" /\ KindOf(valType) = "struct"

\* C3 as stated: validate reports exactly one violation for every violated
\* (field, constraint) pair anywhere in the value, members of Body and of
\* nested structs included, and no error when there is none.
C3_AsStated ==
    ValidatedStruct =>
        /\ Len(valResult.errors) = Cardinality(ViolatedPairs(valType, valInput, <<>>))
        /\ (valResult.isErr <=> ViolatedPairs(valType, valInput, <<>>) # {})

\* The name a field contributes to a path, as the contract and the JSON
\* document spell it: its json name, or its Go name when it has none.
PathName(f) ==
    IF Tag(f, "json") # "" /\ CutComma(Tag(f, "json")) # ""
    THEN CutComma(Tag(f, "json")) ELSE f.name

\* The (dotted path, constraint) pairs of the violations anywhere in rv,
\* the path composed from the root: "body" for a field named Body, the
\* field's own name after the enclosing path and a dot for every other.
RECURSIVE DottedPairs(_, _, _)
DottedPairs(t, rv, enclosing) ==
    UNION {
      LET f == TypeTable[t].fields[i]
          fv == rv[f.name]
          here == IF f.name = "Body" THEN "body"
                  ELSE IF enclosing = "" THEN PathName(f)
                  ELSE enclosing \o "." \o PathName(f)
          own == checkFieldConstraints(f, fv, "")
          isPtr == KindOf(f.type) = "ptr"
          inner == IF isPtr THEN TypeTable[f.type].elem ELSE f.type
      IN {<<here, own[k].rule>> : k \in 1..Len(own)}
         \cup (IF KindOf(inner) = "struct" /\ (isPtr => ~IsNil(fv))
               THEN DottedPairs(inner, IF isPtr THEN fv[1] ELSE fv, here)
               ELSE {})
      : i \in {j \in 1..Len(TypeTable[t].fields) : TypeTable[t].fields[j].exported} }

ReportedPairs ==
    {<<valResult.errors[k].field, valResult.errors[k].rule>> :
        k \in 1..Len(valResult.errors)}

\* C13: the field path of every violation reported is the dot-separated
\* composition of the names from the root to the violating field: members
\* of Body start with body., members of any other nested struct have the
\* struct field's name appended to the enclosing path, at every depth.
C13_DottedPaths ==
    ValidatedStruct => ReportedPairs \subseteq DottedPairs(valType, valInput, "")

\* Violations at depth two and three under Body were reported.
C13_Witness ==
    /\ ValidatedStruct
    /\ valType = "UpdateUserReq"
    /\ ReportedPairs = {<<"body.name", "minLength">>,
                        <<"body.address.city", "minLength">>}

\* The exported root fields of the validated type that carry a binding
\* tag: path, query, header, cookie or form.
BindingFields ==
    {i \in 1..Len(TypeTable[valType].fields) :
        /\ TypeTable[valType].fields[i].exported
        /\ \E src \in {"path", "query", "header", "cookie", "form"} :
              Tag(TypeTable[valType].fields[i], src) # ""}

ValField(i) == TypeTable[valType].fields[i]

\* C18 as stated: validate skips binding-source fields: no violation
\* reported is that of a field carrying a path, query, header, cookie or
\* form tag.
C18_AsStated ==
    ValidatedStruct =>
        \A i \in BindingFields : \A k \in 1..Len(valResult.errors) :
            valResult.errors[k].field # PathName(ValField(i))

\* C18, amended: validate checks binding-source fields like payload
\* fields: a string field with a path, query, header, cookie or form tag
\* is reported for minLength exactly when it is shorter than its minLength
\* tag and for maxLength exactly when it is longer than its maxLength tag.
C18_BindingFieldsChecked ==
    ValidatedStruct =>
        \A i \in BindingFields :
            LET f == ValField(i) IN
            (KindOf(f.type) = "string" /\ PathName(f) # "-") =>
                /\ (Tag(f, "minLength") \in DOMAIN Numerals) =>
                      (<<PathName(f), "minLength">> \in ReportedPairs
                         <=> Len(valInput[f.name]) < Numerals[Tag(f, "minLength")])
                /\ (Tag(f, "maxLength") \in DOMAIN Numerals) =>
                      (<<PathName(f), "maxLength">> \in ReportedPairs
                         <=> Len(valInput[f.name]) > Numerals[Tag(f, "maxLength")])

\* A value whose path field is too short and whose form field is too long
\* was validated, and both were reported.
C18_Witness ==
    /\ ValidatedStruct
    /\ valType = "ItemReq"
    /\ valInput["ID"] = "a"
    /\ valInput["Title"] = "abcdef"
    /\ valInput["Name"] = "admin"
    /\ ReportedPairs = {<<"ID", "minLength">>, <<"Title", "maxLength">>}

\* The top-level fields of the value validated that hold their zero value
\* and that the walk does not pass over.
ZeroValued ==
    {i \in 1..Len(TypeTable[valType].fields) :
        /\ ValField(i).exported
        /\ PathName(ValField(i)) # "-"
        /\ ValField(i).name # "Body"
        /\ KindOf(ValField(i).type) \in {"string"} \cup IntKinds \cup UintKinds \cup FloatKinds
        /\ valInput[ValField(i).name] = Zero(ValField(i).type)}

\* C29: a string or number field left at its zero value is checked like any
\* other value: the empty string violates a minLength of 1 or more and an
\* enum that does not list the empty string, and 0 violates a minimum above
\* 0.
C29_ZeroValuesChecked ==
    ValidatedStruct =>
        \A i \in ZeroValued :
            LET f == ValField(i)
                isString == KindOf(f.type) = "string"
                allowed == SplitComma(Tag(f, "enum"))
            IN /\ (/\ isString
                    /\ Tag(f, "minLength") \in DOMAIN Numerals
                    /\ Numerals[Tag(f, "minLength")] >= 1)
                     => <<PathName(f), "minLength">> \in ReportedPairs
               /\ (/\ isString
                    /\ Tag(f, "enum") # ""
                    /\ \A k \in 1..Len(allowed) : allowed[k] # "")
                     => <<PathName(f), "enum">> \in ReportedPairs
               /\ (/\ ~isString
                    /\ Tag(f, "minimum") \in DOMAIN Numerals
                    /\ Numerals[Tag(f, "minimum")] > 0)
                     => <<PathName(f), "minimum">> \in ReportedPairs

\* The zero value of CreateUserReq, as an empty JSON object leaves it, has
\* been validated.
C29_Witness ==
    /\ ValidatedStruct
    /\ valType = "CreateUserReq"
    /\ valInput = Zero("CreateUserReq")
    /\ {<<"name", "minLength">>, <<"age", "minimum">>, <<"role", "enum">>}
          \subseteq ReportedPairs

\* C11 as stated: validate returns nil if and only if the value has zero
\* violations; it never returns an aggregate with an empty violation list,
\* and the count stated in the detail of an aggregate is the length of its
\* list.
C11_AsStated ==
    valState = "done" =>
        /\ ValidatedStruct =>
              (~valResult.isErr <=> ViolatedPairs(valType, valInput, <<>>) = {})
        /\ valResult.isErr =>
              /\ Len(valResult.errors) > 0
              /\ valResult.count = Len(valResult.errors)
        /\ ~valResult.isErr => valResult = NoError

(***************************************************************************)
(* Codec registry (codecRegistry): encoders and content negotiation.       *)
(***************************************************************************)
\* Number of encoders registered with WithEncoder.
MaxUserEncoders == 1
\* Number of comma-separated parts of an Accept header.
MaxParts == 2

\* An encoder, by its ContentType() and the codec that implements it.
Encoder(ct, impl) == [ct |-> ct, impl |-> impl]
jsonCodec == Encoder("application/json", "jsonCodec")
xmlCodec == Encoder("application/xml", "xmlCodec")

\* Encoders an application registers.
UserEncoders ==
    {Encoder("text/plain", "testEncoder"), Encoder("application/json", "userJSON")}

newCodecRegistryUserFirst(userEncoders) == userEncoders \o <<jsonCodec, xmlCodec>>

\* newCodecRegistry: JSON first, XML second, then the user's encoders.
newCodecRegistry(userEncoders) == <<jsonCodec, xmlCodec>> \o userEncoders

\* The decoders of the registry: JSON first, XML second, then the user's.
newDecoderRegistry(userDecoders) == <<jsonCodec, xmlCodec>> \o userDecoders

\* The parts strings.SplitSeq(accept, ",") yields, as sent.
AcceptParts ==
    {"application/json", " application/json", "application/json;q=0.9",
     "application/json;q=0", "application/json;q=abc", "application/xml",
     "application/xml;q=0.9", " application/xml;q=0.9", "Application/XML;q=0.5",
     "text/csv", "text/plain;q=0.5", "*/*", "*/*;q=0.5", "*/*;q=0", "a/b/c"}

\* strings.TrimSpace
TrimSpace(part) ==
    CASE part = " application/json" -> "application/json"
      [] part = " application/xml;q=0.9" -> "application/xml;q=0.9"
      [] OTHER -> part

MediaRange(mt, hasQ, qs) == [ok |-> TRUE, mediaType |-> mt, hasQ |-> hasQ, qs |-> qs]

\* mime.ParseMediaType: the media type in lower case and the q parameter;
\* ok is FALSE when it returns an error.
ParseMediaType(part) ==
    CASE part = "application/json" -> MediaRange("application/json", FALSE, "")
      [] part = "application/json;q=0.9" -> MediaRange("application/json", TRUE, "0.9")
      [] part = "application/json;q=0" -> MediaRange("application/json", TRUE, "0")
      [] part = "application/json;q=abc" -> MediaRange("application/json", TRUE, "abc")
      [] part = "application/xml" -> MediaRange("application/xml", FALSE, "")
      [] part = "application/xml;q=0.9" -> MediaRange("application/xml", TRUE, "0.9")
      [] part = "Application/XML;q=0.5" -> MediaRange("application/xml", TRUE, "0.5")
      [] part = "text/csv" -> MediaRange("text/csv", FALSE, "")
      [] part = "text/plain;q=0.5" -> MediaRange("text/plain", TRUE, "0.5")
      [] part = "*/*" -> MediaRange("*/*", FALSE, "")
      [] part = "*/*;q=0.5" -> MediaRange("*/*", TRUE, "0.5")
      [] part = "*/*;q=0" -> MediaRange("*/*", TRUE, "0")
      [] part = "application/json; charset=utf-8" ->
            MediaRange("application/json", FALSE, "")
      [] OTHER -> [ok |-> FALSE, mediaType |-> "", hasQ |-> FALSE, qs |-> ""]

\* strconv.ParseFloat on quality values, in thousandths.
QValues == ("0" :> 0) @@ ("0.5" :> 500) @@ ("0.9" :> 900) @@ ("1.0" :> 1000)
ParseFloatOk(qs) == qs \in DOMAIN QValues
ParseFloat(qs) == QValues[qs]

\* q := 1.0, replaced by the q parameter when it is present and parses.
qualityOf(range) ==
    IF range.hasQ /\ ParseFloatOk(range.qs) THEN ParseFloat(range.qs) ELSE 1000

encoderIndexLast(cr, mediaType) ==
    LET is == {i \in 1..Len(cr) : cr[i].ct = mediaType}
    IN IF is = {} THEN 0 ELSE CHOOSE i \in is : \A j \in is : i >= j

\* The first encoder of cr whose ContentType() is mediaType, by index; 0
\* when there is none.
encoderIndex(cr, mediaType) ==
    LET is == {i \in 1..Len(cr) : cr[i].ct = mediaType}
    IN IF is = {} THEN 0 ELSE CHOOSE i \in is : \A j \in is : i <= j

\* decoderFor: the decoder for a Content-Type header, by index into the
\* decoders (0 for nil), and ok.
decoderFor(decoders, contentType) ==
    IF contentType = "" THEN [decoder |-> 1, ok |-> TRUE]
    ELSE LET parsed == ParseMediaType(contentType)
             m == encoderIndex(decoders, parsed.mediaType)
         IN IF ~parsed.ok \/ m = 0 THEN [decoder |-> 0, ok |-> FALSE]
            ELSE [decoder |-> m, ok |-> TRUE]

skipRangeNever(q, bestQuality) == FALSE

skipRangeBelow(q, bestQuality) == q < bestQuality

\* if q <= best.quality { continue }
skipRange(q, bestQuality) == q <= bestQuality

\* The loop of negotiate over the parts from index i on; best.encoder is an
\* index into cr, 0 for nil.
RECURSIVE negotiateFrom(_, _, _, _)
negotiateFrom(cr, parts, i, best) ==
    IF i > Len(parts) THEN best
    ELSE
      LET range == ParseMediaType(TrimSpace(parts[i]))
          q == qualityOf(range)
          m == encoderIndex(cr, range.mediaType)
      IN Bind(IF ~range.ok \/ skipRange(q, best.quality) THEN best
              ELSE IF range.mediaType = "*/*" THEN [encoder |-> 1, quality |-> q]
              ELSE IF m # 0 THEN [encoder |-> m, quality |-> q]
              ELSE best,
              LAMBDA b : negotiateFrom(cr, parts, i + 1, b))

\* codecRegistry.negotiate: (encoder, ok); the header is given by its parts,
\* the empty header by no part.
negotiate(cr, accept) ==
    IF accept = <<>> THEN [encoder |-> 1, ok |-> TRUE]
    ELSE Bind(negotiateFrom(cr, accept, 1, [encoder |-> 0, quality |-> -1000]),
              LAMBDA best : [encoder |-> best.encoder, ok |-> best.encoder # 0])

VARIABLES
    encoders,    \* Router.encoders: the encoders registered with WithEncoder
    accept,      \* the Accept header of the latest negotiation, by its parts
    negState,    \* "none" before the first negotiation, "done" after one
    negOut       \* what negotiate returned: encoder index (0 is nil) and ok

negVars == <<encoders, accept, negState, negOut>>

NegInit ==
    /\ encoders = <<>>
    /\ accept = <<>>
    /\ negState = "none"
    /\ negOut = [encoder |-> 0, ok |-> FALSE]

\* api.New(api.WithEncoder(enc)): options run before the router serves.
WithEncoder(enc) ==
    /\ negState = "none"
    /\ Len(encoders) < MaxUserEncoders
    /\ encoders' = Append(encoders, enc)
    /\ UNCHANGED <<accept, negState, negOut>>

AcceptHeaders == UNION {[1..n -> AcceptParts] : n \in 0..MaxParts}

\* negotiate(accept) runs to its return on the router's registry.  The
\* registry is immutable once built and negotiate reads nothing else, so a
\* behaviour makes one negotiation.
Negotiate(h) ==
    /\ negState = "none"
    /\ accept' = h
    /\ negState' = "done"
    /\ negOut' = negotiate(newCodecRegistry(encoders), h)
    /\ UNCHANGED encoders

NegNext ==
    \/ \E enc \in UserEncoders : WithEncoder(enc)
    \/ \E h \in AcceptHeaders : Negotiate(h)

(***************************************************************************)
(* Properties of negotiation.                                              *)
(***************************************************************************)
Registry == newCodecRegistry(encoders)

\* The media ranges of the header: the parts that are media ranges.
Ranges == {i \in 1..Len(accept) : ParseMediaType(TrimSpace(accept[i])).ok}
RangeOf(i) == ParseMediaType(TrimSpace(accept[i]))

\* The quality of a range: its q, 1.0 without one.
Quality(i) ==
    IF RangeOf(i).hasQ /\ RangeOf(i).qs \in DOMAIN QValues
    THEN QValues[RangeOf(i).qs] ELSE 1000

\* The encoder a range matches, 0 when none: */* matches the default codec,
\* any other range the encoder registered for its media type.
Matched(i) ==
    IF RangeOf(i).mediaType = "*/*" THEN 1
    ELSE encoderIndex(Registry, RangeOf(i).mediaType)

MatchingRanges == {i \in Ranges : Matched(i) # 0}

QualityExample ==
    {<<"application/xml;q=0.9", " application/json">>,
     <<"application/json", " application/xml;q=0.9">>}

\* C4: for a non-empty Accept header with a range that matches a registered
\* encoder, negotiate returns the encoder of a matching range whose quality
\* is the highest among the matching ranges (no q counting as 1.0, */* as
\* the default codec); application/xml;q=0.9 with application/json selects
\* the JSON encoder in either order.
C4_HighestQuality ==
    (negState = "done" /\ accept # <<>>) =>
        /\ MatchingRanges # {} =>
             /\ negOut.ok
             /\ \E i \in MatchingRanges :
                   /\ negOut.encoder = Matched(i)
                   /\ \A j \in MatchingRanges : Quality(j) <= Quality(i)
        /\ accept \in QualityExample => Registry[negOut.encoder] = jsonCodec

\* The header of the example was negotiated, XML range first.
C4_Witness ==
    /\ negState = "done"
    /\ accept = <<"application/xml;q=0.9", " application/json">>
    /\ negOut.ok
    /\ Registry[negOut.encoder].ct = "application/json"

\* The matching ranges of the highest quality among the matching ranges,
\* and the earliest of them in the header.
TopRanges == {i \in MatchingRanges : \A j \in MatchingRanges : Quality(j) <= Quality(i)}
FirstTopRange == CHOOSE i \in TopRanges : \A j \in TopRanges : i <= j

\* Two ranges of the highest quality match different encoders.
TiedEncoders == \E i, j \in TopRanges : Matched(i) # Matched(j)

\* C15: among matching ranges of equal quality negotiate keeps the one seen
\* first: the encoder returned is that of the earliest matching range of
\* the highest quality, never that of a later range of the same quality.
C15_TieKeepsEarliest ==
    (negState = "done" /\ accept # <<>> /\ MatchingRanges # {}) =>
        negOut.encoder = Matched(FirstTopRange)

\* Two ranges of quality 0.9 matched JSON and XML, JSON first, and the
\* JSON encoder was kept.
C15_Witness ==
    /\ negState = "done"
    /\ accept = <<"application/json;q=0.9", " application/xml;q=0.9">>
    /\ Cardinality(TopRanges) = 2
    /\ Registry[negOut.encoder].ct = "application/json"

\* C16 as stated: when ranges of equal quality match different encoders
\* the encoder returned is the first-registered of them, the one of lowest
\* registry index, whatever the order of the ranges in the header.
C16_AsStated ==
    (negState = "done" /\ accept # <<>> /\ TiedEncoders) =>
        /\ negOut.ok
        /\ \A i \in TopRanges : negOut.encoder <= Matched(i)

\* The encoders registered for the media type of range i.
EncodersOf(i) == {e \in 1..Len(Registry) : Registry[e].ct = RangeOf(i).mediaType}

\* C16, amended: when ranges of equal quality match different encoders the
\* order of the ranges in the header decides: the encoder returned is that
\* of the earliest of the tied ranges.  Registration order decides only
\* within one range: */* selects the first encoder of the registry, any
\* other range the first-registered encoder of its media type.  With JSON
\* registered before XML, application/xml, application/json selects XML.
C16_HeaderOrderDecides ==
    (negState = "done" /\ accept # <<>> /\ TiedEncoders) =>
        /\ negOut.ok
        /\ negOut.encoder = Matched(FirstTopRange)
        /\ IF RangeOf(FirstTopRange).mediaType = "*/*"
           THEN negOut.encoder = 1
           ELSE /\ negOut.encoder \in EncodersOf(FirstTopRange)
                /\ \A e \in EncodersOf(FirstTopRange) : negOut.encoder <= e
        /\ (RangeOf(1).mediaType = "application/xml" /\ Quality(1) = 1000)
              => Registry[negOut.encoder] = xmlCodec

\* application/xml, application/json was negotiated with JSON registered
\* before XML, and the XML encoder was selected.
C16_Witness ==
    /\ negState = "done"
    /\ accept = <<"application/xml", " application/json">>
    /\ TiedEncoders
    /\ negOut.ok
    /\ Registry[negOut.encoder] = xmlCodec

\* C28 as stated: the encoder negotiate returns for a non-empty Accept
\* header is matched by a range of the header whose quality is above 0; an
\* encoder all of whose matching ranges carry q=0 is never returned.
C28_AsStated ==
    (negState = "done" /\ accept # <<>> /\ negOut.ok) =>
        \E i \in MatchingRanges :
            /\ Matched(i) = negOut.encoder
            /\ Quality(i) > 0

\* The lists of codecs a router can be configured with.
UserCodecLists == UNION {[1..n -> UserEncoders] : n \in 0..MaxUserEncoders}

\* C24: with an empty Accept header negotiate returns the encoder at index
\* 0 of the registry and with an empty Content-Type decoderFor returns the
\* decoder at index 0 (the first of the sequence), and this is the built-in
\* JSON codec whatever encoders and decoders the user has registered.
C24_DefaultIsJSON ==
    /\ (negState = "done" /\ accept = <<>>) =>
          /\ negOut = [encoder |-> 1, ok |-> TRUE]
          /\ Registry[negOut.encoder] = jsonCodec
    /\ negState = "done" =>
          \A ud \in {encoders} \cup UserCodecLists :
              LET found == decoderFor(newDecoderRegistry(ud), "") IN
              /\ found = [decoder |-> 1, ok |-> TRUE]
              /\ newDecoderRegistry(ud)[found.decoder] = jsonCodec

\* A request without Accept header has been negotiated on a router with a
\* user encoder for application/json.
C24_Witness ==
    /\ negState = "done"
    /\ accept = <<>>
    /\ Len(encoders) >= 1
    /\ encoders[1] = Encoder("application/json", "userJSON")
    /\ negOut.ok
    /\ Registry[negOut.encoder] = jsonCodec

(***************************************************************************)
(* request.go: classification of request types.                            *)
(***************************************************************************)
classifyRequestBodyFirst(t) ==
    IF t = "Void" THEN "catVoid"
    ELSE IF hasBodyField(t) THEN "catMixed"
    ELSE IF hasFormTags(t) THEN "catForm"
    ELSE IF hasParamTags(t) \/ hasRawRequest(t) THEN "catParams"
    ELSE "catBodyOnly"

\* classifyRequest
classifyRequest(t) ==
    IF t = "Void" THEN "catVoid"
    ELSE IF hasFormTags(t) THEN "catForm"
    ELSE IF hasBodyField(t) THEN "catMixed"
    ELSE IF hasParamTags(t) \/ hasRawRequest(t) THEN "catParams"
    ELSE "catBodyOnly"

(***************************************************************************)
(* The HTTP request as the binder reads it.                                *)
(***************************************************************************)
\* Values of a path capture, query parameter, header or cookie; the empty
\* string is what the accessor returns when the parameter is absent.
ParamValues == {"", "42", "true"}

\* The (source, name) pairs the tags of t name.
ParamKeys(t) ==
    {<<paramTags[k], Tag(TypeTable[t].fields[i], paramTags[k])>> :
        i \in {j \in 1..Len(TypeTable[t].fields) : TypeTable[t].fields[j].exported},
        k \in 1..Len(paramTags)}
    \ {<<paramTags[k], "">> : k \in 1..Len(paramTags)}

\* r.PathValue(name), r.URL.Query().Get(name), r.Header.Get(name) and the
\* value of r.Cookie(name).
ParamOf(r, src, name) ==
    IF <<src, name>> \in DOMAIN r.params THEN r.params[<<src, name>>] ELSE ""

\* The request body: no Body at all, http.NoBody with Content-Length 0, an
\* empty stream of unknown length, a JSON document of the target type, and
\* bytes that are no JSON document.
BodyKinds == {"nil", "empty", "emptyChunked", "json", "malformed"}

\* The value encoding/json decodes the document of the model into, by the
\* type of the target.
DecodedBody(t) ==
    CASE t = "CreateUserReq" ->
           [Name |-> "admin", Age |-> 18, Tags |-> <<"x">>, Role |-> "admin"]
      [] t = "UpdateBody" -> [Name |-> "a", Address |-> [City |-> "a"]]
      [] OTHER -> Zero(t)

\* The names the form tags of t name.
FormKeys(t) ==
    {Tag(TypeTable[t].fields[i], "form") :
        i \in {j \in 1..Len(TypeTable[t].fields) :
                 /\ TypeTable[t].fields[j].exported
                 /\ TypeTable[t].fields[j].type # "FileUpload"}} \ {""}

NoForm == [ok |-> FALSE, values |-> EmptyMap, files |-> {}]

\* r.FormValue(name)
FormValue(r, name) ==
    IF name \in DOMAIN r.form.values THEN r.form.values[name] ELSE ""

\* The Accept headers requests are sent with, by their parts.
AcceptChoices ==
    {<<>>, <<"text/csv">>, <<"application/xml;q=0.9", " application/json">>}

\* The Content-Type headers requests with a body are sent with.
ContentTypes == {"", "application/json; charset=utf-8", "Application/XML;q=0.5", "text/csv"}

\* The requests a route with request type t is sent.
RequestsFor(t) ==
    LET cat == classifyRequest(t)
        bodies == IF cat \in {"catMixed", "catBodyOnly"} THEN BodyKinds ELSE {"nil"}
        forms == IF cat = "catForm"
                 THEN {NoForm} \cup
                      {[ok |-> TRUE, values |-> vs, files |-> fs] :
                          vs \in [FormKeys(t) -> {"", "42"}],
                          fs \in {{}, {"file"}}}
                 ELSE {NoForm}
        keys == IF cat = "catVoid" THEN {} ELSE ParamKeys(t)
        ctypes == IF cat \in {"catMixed", "catBodyOnly"} THEN ContentTypes ELSE {""}
    IN {[params |-> ps, body |-> b, form |-> fm, accept |-> a, contentType |-> ct] :
           ps \in [keys -> ParamValues], b \in bodies, fm \in forms,
           a \in AcceptChoices, ct \in ctypes}

(***************************************************************************)
(* request.go: the binder.                                                 *)
(***************************************************************************)
\* strconv.ParseBool
ParseBoolOk(s) ==
    s \in {"1", "t", "T", "true", "TRUE", "True", "0", "f", "F", "false", "FALSE", "False"}
ParseBool(s) == s \in {"1", "t", "T", "true", "TRUE", "True"}

\* time.ParseDuration, in milliseconds: a number needs a unit, only 0 does
\* without.
Durations == ("5s" :> 5000) @@ ("1m" :> 60000) @@ ("0" :> 0)

\* strconv.ParseInt(value, 10, 64)
IntLiterals == Numerals @@ ("-7" :> -7)

\* strconv.ParseFloat(value, 64), in thousandths.
FloatLiterals ==
    [s \in DOMAIN IntLiterals |-> 1000 * IntLiterals[s]] @@ ("1.5" :> 1500)

SetOk(v) == [ok |-> TRUE, v |-> v]
SetErr == [ok |-> FALSE, v |-> Nil]

setFieldValueAnyInt(ty, value) ==
    IF ty = "Duration" THEN
        IF value \in DOMAIN Durations THEN SetOk(Durations[value]) ELSE SetErr
    ELSE IF KindOf(ty) = "string" THEN SetOk(value)
    ELSE IF KindOf(ty) \in IntKinds THEN
        IF value \in DOMAIN IntLiterals THEN SetOk(IntLiterals[value]) ELSE SetErr
    ELSE IF KindOf(ty) = "float64" THEN
        IF value \in DOMAIN FloatLiterals THEN SetOk(FloatLiterals[value]) ELSE SetErr
    ELSE IF KindOf(ty) = "bool" THEN
        IF ParseBoolOk(value) THEN SetOk(ParseBool(value)) ELSE SetErr
    ELSE SetErr

\* setFieldValue on a field of type ty: the value stored, or an error.
setFieldValue(ty, value) ==
    IF ty = "Duration" THEN
        IF value \in DOMAIN Durations THEN SetOk(Durations[value]) ELSE SetErr
    ELSE IF KindOf(ty) = "string" THEN SetOk(value)
    ELSE IF KindOf(ty) \in {"int", "int64"} THEN
        IF value \in DOMAIN IntLiterals THEN SetOk(IntLiterals[value]) ELSE SetErr
    ELSE IF KindOf(ty) = "float64" THEN
        IF value \in DOMAIN FloatLiterals THEN SetOk(FloatLiterals[value]) ELSE SetErr
    ELSE IF KindOf(ty) = "bool" THEN
        IF ParseBoolOk(value) THEN SetOk(ParseBool(value)) ELSE SetErr
    ELSE SetErr

\* The sentinel a failure of each source is wrapped in.
Sentinel(src) ==
    CASE src = "path" -> "bind path"
      [] src = "query" -> "bind query"
      [] src = "header" -> "bind header"
      [] src = "cookie" -> "bind cookie"
      [] src = "form" -> "bind form"
      [] OTHER -> "bind body"

\* The state of a binding in progress: the value being populated, the
\* error returned ("" while there is none) with the parameter it names,
\* done once the function has returned, the log of the setFieldValue calls
\* made (field, source, string handed over), and bodyRead once decodeBody
\* or bindFormFields has been entered.
BindState(v) ==
    [value |-> v, err |-> "", name |-> "", field |-> "", done |-> FALSE,
     log |-> <<>>, bodyRead |-> FALSE]

afterSetErrorContinue(st, src, name, f) ==
    [st EXCEPT !.err = Sentinel(src), !.name = name, !.field = f.name]

\* return fmt.Errorf("%w: %s: %w", ErrBind..., name, err)
afterSetError(st, src, name, f) ==
    [st EXCEPT !.err = Sentinel(src), !.name = name, !.field = f.name,
               !.done = TRUE]

resolveNoDefault(val, src, f) == val

\* if val == "" { val = f.Tag.Get("default") }, for every source but path
resolveDefault(val, src, f) ==
    IF src # "path" /\ val = "" THEN Tag(f, "default") ELSE val

\* One source of one field: look the value up, fall back to the default,
\* and store it when it is not empty.
bindSource(st, f, src, r) ==
    LET name == Tag(f, src)
        val == resolveDefault(ParamOf(r, src, name), src, f)
        set == setFieldValue(f.type, val)
        logged == [st EXCEPT !.log = Append(@, [field |-> f.name, src |-> src,
                                                val |-> val])]
    IN IF name = "" \/ val = "" THEN st
       ELSE IF ~set.ok THEN afterSetError(logged, src, name, f)
       ELSE [logged EXCEPT !.value = (f.name :> set.v) @@ @]

\* bindParams: the loop over the fields of t from index i on, source k of
\* field i being the next to look at (k past the four sources is the
\* RawRequest injection that ends a field).
RECURSIVE bindParamsFrom(_, _, _, _, _)
bindParamsFrom(t, r, i, k, st) ==
    LET fs == TypeTable[t].fields IN
    IF i > Len(fs) \/ st.done THEN st
    ELSE IF ~fs[i].exported \/ fs[i].name = "Body"
         THEN bindParamsFrom(t, r, i + 1, 1, st)
    ELSE IF k > Len(paramTags) THEN
         Bind(IF fs[i].type = "RawRequest"
              THEN [st EXCEPT !.value = (fs[i].name :> [Request |-> PointerTo("r")]) @@ @]
              ELSE st,
              LAMBDA st1 : bindParamsFrom(t, r, i + 1, 1, st1))
    ELSE Bind(bindSource(st, fs[i], paramTags[k], r),
              LAMBDA st1 : bindParamsFrom(t, r, i, k + 1, st1))

bindParams(t, r, st) == bindParamsFrom(t, r, 1, 1, st)

\* bindFormFields: the loop over the fields of t from index i on.
RECURSIVE bindFormFrom(_, _, _, _)
bindFormFrom(t, r, i, st) ==
    LET fs == TypeTable[t].fields IN
    IF i > Len(fs) \/ st.done THEN st
    ELSE
      LET f == fs[i]
          name == Tag(f, "form")
          val == FormValue(r, name)
          set == setFieldValue(f.type, val)
          logged == [st EXCEPT !.log = Append(@, [field |-> f.name, src |-> "form",
                                                  val |-> val])]
      IN Bind(IF ~f.exported \/ name = "" THEN st
              ELSE IF f.type = "FileUpload" THEN
                  IF name \in r.form.files
                  THEN [st EXCEPT !.value = (f.name :> [Filename |-> name]) @@ @]
                  ELSE st
              ELSE IF val = "" THEN st
              ELSE IF ~set.ok THEN afterSetError(logged, "form", name, f)
              ELSE [logged EXCEPT !.value = (f.name :> set.v) @@ @],
              LAMBDA st1 : bindFormFrom(t, r, i + 1, st1))

\* bindFormFields: r.ParseMultipartForm fails when the request carries no
\* multipart form.
bindFormFields(t, r, st) ==
    IF ~r.form.ok
    THEN [st EXCEPT !.err = Sentinel("form"), !.done = TRUE, !.bodyRead = TRUE]
    ELSE bindFormFrom(t, r, 1, [st EXCEPT !.bodyRead = TRUE])

\* json.NewDecoder(r.Body).Decode(target): what it returns and stores.
jsonDecode(body, target) ==
    CASE body = "json" -> [err |-> "", v |-> DecodedBody(target), stored |-> TRUE]
      [] body = "malformed" -> [err |-> "syntax", v |-> Nil, stored |-> FALSE]
      [] OTHER -> [err |-> "EOF", v |-> Nil, stored |-> FALSE]

decodeErrStrict(err) == err

\* if errors.Is(err, io.EOF) { return nil }; return err
decodeErr(err) == IF err = "EOF" THEN "" ELSE err

\* decodeBody: r.Body == nil || r.ContentLength == 0 returns nil at once.
decodeBody(body, target) ==
    IF body \in {"nil", "empty"} THEN [err |-> "", v |-> Nil, stored |-> FALSE]
    ELSE Bind(jsonDecode(body, target), LAMBDA d : [d EXCEPT !.err = decodeErr(@)])

\* The part of decodeRequest after bindParams, by category.
decodePayload(t, cat, r, st) ==
    IF cat = "catBodyOnly" THEN
        Bind(decodeBody(r.body, t), LAMBDA d :
          IF d.err # ""
          THEN [st EXCEPT !.err = Sentinel("body"), !.done = TRUE, !.bodyRead = TRUE]
          ELSE [st EXCEPT !.bodyRead = TRUE,
                          !.value = IF d.stored THEN d.v ELSE @])
    ELSE IF cat = "catMixed" THEN
        Bind(decodeBody(r.body, TypeTable[t].fields[BodyFieldIndex(t)].type),
          LAMBDA d :
          IF d.err # ""
          THEN [st EXCEPT !.err = Sentinel("body"), !.done = TRUE, !.bodyRead = TRUE]
          ELSE [st EXCEPT !.bodyRead = TRUE,
                          !.value = IF d.stored THEN ("Body" :> d.v) @@ @ ELSE @])
    ELSE IF cat = "catForm" THEN bindFormFields(t, r, st)
    ELSE st

\* decodeRequest[Req](r) with Req = t: (req, nil) or (nil, err).
decodeRequest(t, r) ==
    LET cat == classifyRequest(t) IN
    IF cat = "catVoid" THEN [BindState(Zero(t)) EXCEPT !.done = TRUE]
    ELSE Bind(bindParams(t, r, BindState(Zero(t))), LAMBDA st1 :
           Bind(IF st1.err # "" THEN st1 ELSE decodePayload(t, cat, r, st1),
                LAMBDA st2 :
                  [st2 EXCEPT !.done = TRUE,
                              !.value = IF st2.err # "" THEN Nil ELSE @]))

(***************************************************************************)
(* register.go, response.go: the typed handler pipeline.                   *)
(***************************************************************************)
NoResponse == [status |-> 0, ctype |-> "", body |-> "none", panicked |-> FALSE]

\* api.Error(status, message)
HTTPError(status) ==
    [isErr |-> TRUE, status |-> status, kind |-> "http", errors |-> <<>>, count |-> 0]

\* errors.New(...): an error that is no StatusCoder.
PlainError == [isErr |-> TRUE, status |-> 0, kind |-> "plain", errors |-> <<>>, count |-> 0]

\* ErrorStatus
ErrorStatus(err) == IF err.status # 0 THEN err.status ELSE 500

\* writeErrorResponse: a problem document with the status of the error.
writeErrorResponse(err) ==
    [status |-> ErrorStatus(err), ctype |-> "application/problem+json",
     body |-> "problem", panicked |-> FALSE]

\* encodeResponse for a plain response value: the encoder negotiate returns
\* is used without looking at ok, and calling ContentType() on the nil
\* encoder panics before anything is written.
encodeResponse(acceptHeader, defaultStatus, cr) ==
    Bind(negotiate(cr, acceptHeader), LAMBDA n :
      IF n.encoder = 0 THEN [NoResponse EXCEPT !.panicked = TRUE]
      ELSE [status |-> defaultStatus, ctype |-> cr[n.encoder].ct,
            body |-> "value", panicked |-> FALSE])

\* What the handlers of the model return: a response value, or an error.
HandlerResults == {"value", "error"}

\* What serving one request did: the result of decodeRequest and of
\* validateConstraints, whether the handler was invoked, the stages entered
\* in order, the number of responses written and the response.
Served(dec, val, called, stages, resp) ==
    [decoded |-> dec, validation |-> val, handlerCalled |-> called,
     stages |-> stages,
     writes |-> IF resp.status # 0 THEN 1 ELSE 0,
     response |-> resp]

\* The validators of the model: none installed, one that accepts every
\* request, one that rejects every request.
ValidatorImpls == {"none", "accept", "reject"}

selfValidateSkipped(impl) == NoError

\* sv.Validate() of a request type that implements SelfValidator
selfValidate(impl) == IF impl = "reject" THEN HTTPError(400) ELSE NoError

\* validator.Validate(req) of the router's validator
globalValidate(impl) == IF impl = "reject" THEN HTTPError(422) ELSE NoError

\* The stages entered up to the validators, and the error that ended them.
validatorStages(sv, gv) ==
    LET selfLog == IF sv # "none" THEN <<"self">> ELSE <<>>
        selfErr == IF sv # "none" THEN selfValidate(sv) ELSE NoError
    IN IF selfErr.isErr THEN [stages |-> selfLog, err |-> selfErr]
       ELSE IF gv # "none"
            THEN [stages |-> selfLog \o <<"validator">>, err |-> globalValidate(gv)]
            ELSE [stages |-> selfLog, err |-> NoError]

\* The http.Handler buildHandler returns, serving r for a route of request
\* type t and response type respT whose handler returns hres, with the
\* SelfValidator sv of the request type and the validator gv of the router;
\* the router has no error handler installed.
buildHandler(t, respT, defaultStatus, cr, r, hres, sv, gv) ==
    Bind(decodeRequest(t, r), LAMBDA dec :
      IF dec.err # ""
      THEN Served(dec, NoError, FALSE, <<"bind">>, writeErrorResponse(HTTPError(400)))
      ELSE Bind(validateConstraints(t, dec.value), LAMBDA val :
        IF val.isErr
        THEN Served(dec, val, FALSE, <<"bind", "constraints">>, writeErrorResponse(val))
        ELSE Bind(validatorStages(sv, gv), LAMBDA vs :
          LET checked == <<"bind", "constraints">> \o vs.stages IN
          IF vs.err.isErr
          THEN Served(dec, val, FALSE, checked, writeErrorResponse(vs.err))
          ELSE IF hres = "error"
               THEN Served(dec, val, TRUE, Append(checked, "handler"),
                           writeErrorResponse(PlainError))
          ELSE IF respT = "Void"
               THEN Served(dec, val, TRUE, Append(checked, "handler"),
                           [NoResponse EXCEPT !.status = defaultStatus])
          ELSE Served(dec, val, TRUE, checked \o <<"handler", "encode">>,
                      encodeResponse(r.accept, defaultStatus, cr)))))

VARIABLES
    srvReqType,   \* Req of the registered route
    srvRespType,  \* Resp of the registered route
    srvStatus,    \* the route's default status
    srvState,     \* "none", "ready" once registered, "served" after a request
    srvRequest,   \* the request served
    srvHandler,   \* what the handler returns when it is invoked
    srvSelfValidator, \* the SelfValidator of Req
    srvValidator, \* the validator of the router
    srvOut        \* what serving did: decoded, validation, handlerCalled, response

srvVars == <<srvReqType, srvRespType, srvStatus, srvState, srvRequest, srvHandler,
             srvSelfValidator, srvValidator, srvOut>>

ServedReqTypes ==
    {"Void", "GetUserReq", "CreateUserReq", "UpdateUserReq", "SearchReq",
     "UploadReq", "UploadNoteReq", "RawReq", "LookupReq"}
ServedRespTypes == {"Void", "Widget"}

NoRequest ==
    [params |-> EmptyMap, body |-> "nil", form |-> NoForm, accept |-> <<>>,
     contentType |-> ""]

SrvInit ==
    /\ srvReqType = "Void"
    /\ srvRespType = "Void"
    /\ srvStatus = 0
    /\ srvState = "none"
    /\ srvRequest = NoRequest
    /\ srvHandler = "value"
    /\ srvSelfValidator = "none"
    /\ srvValidator = "none"
    /\ srvOut = Served(BindState(Nil), NoError, FALSE, <<>>, NoResponse)

\* register[Req, Resp]: the handler is built for the two types.
RegisterHandler(req, resp, sv, gv) ==
    /\ srvState = "none"
    /\ req = "Void" => sv = "none"
    /\ srvSelfValidator' = sv
    /\ srvValidator' = gv
    /\ srvReqType' = req
    /\ srvRespType' = resp
    /\ srvStatus' = DefaultStatus(resp)
    /\ srvState' = "ready"
    /\ UNCHANGED <<srvRequest, srvHandler, srvOut>>

\* The built handler serves request r to its end.  It keeps no state
\* between requests, so a behaviour serves one.
ServeHTTP(r, hres) ==
    /\ srvState = "ready"
    /\ srvRequest' = r
    /\ srvHandler' = hres
    /\ srvOut' = buildHandler(srvReqType, srvRespType, srvStatus,
                              newCodecRegistry(encoders), r, hres,
                              srvSelfValidator, srvValidator)
    /\ srvState' = "served"
    /\ UNCHANGED <<srvReqType, srvRespType, srvStatus, srvSelfValidator, srvValidator>>

SrvNext ==
    \/ \E req \in ServedReqTypes, resp \in ServedRespTypes, sv, gv \in ValidatorImpls :
          RegisterHandler(req, resp, sv, gv)
    \/ \E r \in RequestsFor(srvReqType), hres \in HandlerResults : ServeHTTP(r, hres)

(***************************************************************************)
(* Properties of the pipeline.                                             *)
(***************************************************************************)
WasServed == srvState = "served"
Decoded == srvOut.decoded
Bound == srvOut.decoded.value
ServedFields == TypeTable[srvReqType].fields

\* The Accept header of the request served names no media type that an
\* encoder is registered for, and no */*.
NothingAcceptable ==
    /\ srvRequest.accept # <<>>
    /\ \A i \in 1..Len(srvRequest.accept) :
          LET range == ParseMediaType(TrimSpace(srvRequest.accept[i])) IN
          range.ok =>
             /\ range.mediaType # "*/*"
             /\ \A e \in 1..Len(newCodecRegistry(encoders)) :
                   newCodecRegistry(encoders)[e].ct # range.mediaType

\* The request was bound and validated and the handler returned a value to
\* encode.
HasResultToEncode ==
    /\ WasServed
    /\ srvRespType # "Void"
    /\ Decoded.err = ""
    /\ ~srvOut.validation.isErr
    /\ srvOut.handlerCalled
    /\ srvHandler = "value"

\* C5 as stated: a request whose non-empty Accept header matches no
\* registered encoder gets no match from negotiate and is answered with
\* 406 Not Acceptable; the handler's result is not encoded in any format.
C5_AsStated ==
    (HasResultToEncode /\ NothingAcceptable) =>
        /\ ~negotiate(newCodecRegistry(encoders), srvRequest.accept).ok
        /\ srvOut.response.status = 406
        /\ srvOut.response.body # "value"

\* The setFieldValue calls binding makes when nothing fails: one per
\* exported field other than Body and per source tag of it, in declaration
\* order of the fields and in the order path, query, header, cookie, for
\* which the request or the default gives a non-empty string.
StepAt(n) ==
    LET f == ServedFields[((n - 1) \div 4) + 1]
        src == paramTags[((n - 1) % 4) + 1]
        given == ParamOf(srvRequest, src, Tag(f, src))
    IN [field |-> f.name, src |-> src, name |-> Tag(f, src),
        use |-> f.exported /\ f.name # "Body" /\ Tag(f, src) # "",
        val |-> IF src # "path" /\ given = "" THEN Tag(f, "default") ELSE given,
        type |-> f.type]

StepCount == 4 * Len(ServedFields)

Tried(n) == StepAt(n).use /\ StepAt(n).val # ""
Fails(n) == Tried(n) /\ ~setFieldValue(StepAt(n).type, StepAt(n).val).ok

FailingSteps == {n \in 1..StepCount : Fails(n)}
FirstFailing == CHOOSE n \in FailingSteps : \A m \in FailingSteps : n <= m

\* The log binding leaves when it runs the steps up to step n.
RECURSIVE LogUpTo(_)
LogUpTo(n) ==
    IF n = 0 THEN <<>>
    ELSE IF Tried(n)
         THEN Append(LogUpTo(n - 1),
                     [field |-> StepAt(n).field, src |-> StepAt(n).src,
                      val |-> StepAt(n).val])
         ELSE LogUpTo(n - 1)

ParamLog == SelectSeq(Decoded.log, LAMBDA e : e.src # "form")

\* C7: binding is fail-fast.  When decodeRequest fails it returns no value
\* and one error; a parameter error is the error of the first failing
\* (field, source) in declaration order, nothing after that step is bound
\* and neither body nor form is touched; a body or form error comes after
\* every parameter was bound; the response is the 400 problem document and
\* neither validation nor the handler runs.
C7_FailFast ==
    (WasServed /\ Decoded.err # "") =>
        /\ Bound = Nil
        /\ srvOut.response.status = 400
        /\ srvOut.response.status \in 400..499
        /\ srvOut.response.body = "problem"
        /\ ~srvOut.handlerCalled
        /\ srvOut.validation = NoError
        /\ IF FailingSteps # {}
           THEN /\ Decoded.err = Sentinel(StepAt(FirstFailing).src)
                /\ Decoded.name = StepAt(FirstFailing).name
                /\ Decoded.field = StepAt(FirstFailing).field
                /\ Decoded.log = LogUpTo(FirstFailing)
                /\ ~Decoded.bodyRead
           ELSE /\ Decoded.err \in {"bind body", "bind form"}
                /\ ParamLog = LogUpTo(StepCount)
                /\ Decoded.bodyRead

\* A request with two unparsable parameters was refused for the first.
C7_Witness ==
    /\ WasServed
    /\ srvReqType = "SearchReq"
    /\ Cardinality(FailingSteps) >= 2
    /\ Decoded.err = "bind query"
    /\ Decoded.name = "limit"
    /\ srvOut.response.status = 400
    /\ ~srvOut.handlerCalled

\* The body of the request served is absent or has no bytes.
EmptyBody == srvRequest.body \in {"nil", "empty", "emptyChunked"}

BodyType == TypeTable[srvReqType].fields[BodyFieldIndex(srvReqType)].type

\* Every path capture of the request is set.
PathParamsSet ==
    \A n \in 1..StepCount :
        (StepAt(n).use /\ StepAt(n).src = "path") => StepAt(n).val # ""

\* C6: an absent or zero-length body is no binding error.  For a
\* ParamsPlusBody type binding fails only for a parameter that does not
\* parse; otherwise it succeeds with the path parameters bound and Body at
\* its zero value.  For a WholeBody type it succeeds with the zero value.
C6_EmptyBodyTolerated ==
    (WasServed /\ EmptyBody) =>
        /\ classifyRequest(srvReqType) = "catMixed" =>
              /\ Decoded.err # "bind body"
              /\ FailingSteps = {} =>
                    /\ Decoded.err = ""
                    /\ Bound["Body"] = Zero(BodyType)
                    /\ \A n \in 1..StepCount :
                          (Tried(n) /\ StepAt(n).src = "path") =>
                             Bound[StepAt(n).field] =
                                setFieldValue(StepAt(n).type, StepAt(n).val).v
        /\ classifyRequest(srvReqType) = "catBodyOnly" =>
              /\ Decoded.err = ""
              /\ Bound = Zero(srvReqType)

\* A ParamsPlusBody request with its path parameter set and an empty stream
\* as body was bound.
C6_Witness ==
    /\ WasServed
    /\ srvReqType = "UpdateUserReq"
    /\ srvRequest.body = "emptyChunked"
    /\ PathParamsSet
    /\ Decoded.err = ""
    /\ Bound["ID"] = "42"
    /\ Bound["Body"] = Zero("UpdateBody")

\* The number of parameter sources field i is tagged with.
SourceCount(i) ==
    Cardinality({k \in 1..Len(paramTags) : Tag(ServedFields[i], paramTags[k]) # ""})

FallbackSources == {"query", "header", "cookie"}

\* C9: after a successful bind, a field whose query parameter, header or
\* cookie is absent or empty was bound from its default tag, and was left
\* at its zero value when it declares none; path:"id" with
\* query:"page" default:"1", bound with id=42 and no query string, gives
\* {id: "42", page: 1}.
C9_DefaultFallback ==
    (WasServed /\ Decoded.err = "" /\ srvReqType # "Void") =>
        /\ \A n \in 1..StepCount :
              LET st == StepAt(n)
                  f == ServedFields[((n - 1) \div 4) + 1]
                  single == SourceCount(((n - 1) \div 4) + 1) = 1
                  logged == \E j \in 1..Len(Decoded.log) :
                               /\ Decoded.log[j].field = st.field
                               /\ Decoded.log[j].src = st.src
              IN (/\ st.use
                  /\ st.src \in FallbackSources
                  /\ ParamOf(srvRequest, st.src, st.name) = "") =>
                    IF Tag(f, "default") # ""
                    THEN /\ \E j \in 1..Len(Decoded.log) :
                               Decoded.log[j] = [field |-> st.field, src |-> st.src,
                                                 val |-> Tag(f, "default")]
                         /\ single => Bound[st.field] =
                                         setFieldValue(st.type, Tag(f, "default")).v
                    ELSE /\ ~logged
                         /\ single => Bound[st.field] = Zero(st.type)
        /\ (/\ srvReqType = "GetUserReq"
            /\ ParamOf(srvRequest, "path", "id") = "42"
            /\ ParamOf(srvRequest, "query", "page") = "")
              => Bound = [ID |-> "42", Page |-> 1]

\* The request of the example was bound.
C9_Witness ==
    /\ WasServed
    /\ srvReqType = "GetUserReq"
    /\ ParamOf(srvRequest, "path", "id") = "42"
    /\ ParamOf(srvRequest, "query", "page") = ""
    /\ Decoded.err = ""
    /\ Bound["Page"] = 1

(***************************************************************************)
(* The contract against the binder.                                        *)
(***************************************************************************)
\* The binder reads the request body for request type t: decodeRequest
\* calls decodeBody or bindFormFields.
BinderReadsBody(t) == classifyRequest(t) \in {"catForm", "catMixed", "catBodyOnly"}

\* C30 as stated: in a document returned by Spec, the operation of a route
\* has a request body exactly when the binder reads the body for the
\* route's request type.
C30_AsStated ==
    \A b \in Builds :
        run[b].pc = "done" =>
            \A k \in 1..Len(run[b].routes) :
                LET ri == run[b].routes[k]
                    op == run[b].doc.paths[<<toOpenAPIPath(ri.pattern),
                                             ToLower(ri.method)>>]
                IN  (op.requestBody # NoBody) <=> BinderReadsBody(ri.reqType)

\* The setFieldValue calls made for the field named n.
StoresTo(n) == {j \in 1..Len(Decoded.log) : Decoded.log[j].field = n}

\* C22 as stated: binding takes the value of a field from at most one
\* source, so no field is stored to twice and a value bound from one source
\* is not replaced by the value or the default of another.
C22_AsStated ==
    (WasServed /\ srvReqType # "Void") =>
        \A i \in 1..Len(ServedFields) :
            /\ Cardinality(StoresTo(ServedFields[i].name)) <= 1
            /\ (Decoded.err = "" /\ StoresTo(ServedFields[i].name) # {}) =>
                  \A j \in StoresTo(ServedFields[i].name) :
                     Bound[ServedFields[i].name] =
                        setFieldValue(ServedFields[i].type, Decoded.log[j].val).v

\* The request served carries a body.
CarriesBody ==
    /\ classifyRequest(srvReqType) \in {"catMixed", "catBodyOnly"}
    /\ srvRequest.body \in {"json", "malformed"}

\* C14 as stated: for a non-empty Content-Type decoderFor returns a decoder
\* exactly when a registered decoder has the media type of the request; a
\* request with a body whose Content-Type has no registered decoder is
\* answered with a 4xx response, its body is not decoded and the handler
\* is not invoked.
C14_AsStated ==
    (WasServed /\ CarriesBody /\ srvRequest.contentType # "") =>
        LET decoders == newDecoderRegistry(<<>>)
            parsed == ParseMediaType(srvRequest.contentType)
            found == decoderFor(decoders, srvRequest.contentType)
        IN /\ found.ok <=>
                 /\ parsed.ok
                 /\ \E i \in 1..Len(decoders) : decoders[i].ct = parsed.mediaType
           /\ found.ok => decoders[found.decoder].ct = parsed.mediaType
           /\ ~found.ok =>
                 /\ srvOut.response.status \in 400..499
                 /\ ~srvOut.handlerCalled
                 /\ Decoded.value = Nil

\* The stages of a typed route in the order of the pipeline.
StageOrder == <<"bind", "constraints", "self", "validator", "handler", "encode">>

\* Stage i exists for the route served: a validator stage when a validator
\* is there, response encoding when the route has a response body.
StageApplies(i) ==
    CASE StageOrder[i] = "self" -> srvSelfValidator # "none"
      [] StageOrder[i] = "validator" -> srvValidator # "none"
      [] StageOrder[i] = "encode" -> srvRespType # "Void"
      [] OTHER -> TRUE

\* Stage i reports an error for the request served.
StageFails(i) ==
    /\ StageApplies(i)
    /\ CASE StageOrder[i] = "bind" -> decodeRequest(srvReqType, srvRequest).err # ""
         [] StageOrder[i] = "constraints" ->
               /\ decodeRequest(srvReqType, srvRequest).err = ""
               /\ collectConstraintErrors(srvReqType,
                     decodeRequest(srvReqType, srvRequest).value, "") # <<>>
         [] StageOrder[i] = "self" -> srvSelfValidator = "reject"
         [] StageOrder[i] = "validator" -> srvValidator = "reject"
         [] StageOrder[i] = "handler" -> srvHandler = "error"
         [] OTHER -> FALSE

\* Stage i is reached: it exists and no stage before it fails.
StageReached(i) == StageApplies(i) /\ \A j \in 1..(i - 1) : ~StageFails(j)

RECURSIVE ReachedFrom(_)
ReachedFrom(i) ==
    IF i > Len(StageOrder) THEN <<>>
    ELSE (IF StageReached(i) THEN <<StageOrder[i]>> ELSE <<>>) \o ReachedFrom(i + 1)

SomeStageFails == \E i \in 1..Len(StageOrder) : StageFails(i)

VARIABLES clsType, clsOut, clsSeen, clsCalls

clsVars == <<clsType, clsOut, clsSeen, clsCalls>>

MaxClassifyCalls == 3

\* The types classifyRequest is called with: Void, structs of every
\* shape, a pointer to a struct and types that are no struct at all.
ClassifiedTypes ==
    {"Void", "GetUserReq", "*GetUserReq", "CreateUserReq", "UpdateUserReq",
     "UpdateBody", "ProfileReq", "SearchReq", "UploadReq", "UploadNoteReq",
     "RawReq", "Widget", "string", "[]string"}

ClsInit ==
    /\ clsType = ""
    /\ clsOut = ""
    /\ clsSeen = EmptyMap
    /\ clsCalls = 0

\* cat := classifyRequest(reflect.TypeFor[Req]()); clsSeen keeps the
\* category of the first call for each type.
Classify(t) ==
    /\ clsCalls < MaxClassifyCalls
    /\ \E cat \in {classifyRequest(t)} :
          /\ clsType' = t
          /\ clsOut' = cat
          /\ clsSeen' = IF t \in DOMAIN clsSeen THEN clsSeen ELSE (t :> cat) @@ clsSeen
    /\ clsCalls' = clsCalls + 1

ClsNext == \E t \in ClassifiedTypes : Classify(t)

Shapes == {"catVoid", "catForm", "catMixed", "catParams", "catBodyOnly"}

\* The struct type whose fields decide the shape of clsType.
ClsStruct ==
    IF TypeTable[clsType].kind = "ptr" THEN TypeTable[clsType].elem ELSE clsType

ClsFields ==
    IF TypeTable[ClsStruct].kind = "struct" THEN TypeTable[ClsStruct].fields ELSE <<>>

ClsFormTagged ==
    \E i \in 1..Len(ClsFields) : ClsFields[i].exported /\ Tag(ClsFields[i], "form") # ""

ClsHasBody == \E i \in 1..Len(ClsFields) : ClsFields[i].name = "Body"

ClsParamTagged ==
    \E i \in 1..Len(ClsFields) :
        /\ ClsFields[i].exported
        /\ \E src \in {"path", "query", "header", "cookie"} : Tag(ClsFields[i], src) # ""

ClsRaw == \E i \in 1..Len(ClsFields) : ClsFields[i].type = "RawRequest"

\* C8: classifyRequest is total and pure.  Every type gets exactly one of
\* the five shapes, decided in the order Empty (Void), MultipartForm (a
\* form-tagged field, whatever else the type has), ParamsPlusBody (a Body
\* field, whatever tags the other fields have), ParamsOnly (parameter tags
\* or RawRequest), WholeBody (everything else); and a type classified
\* again gets the shape it got the first time.
C8_ClassifyPriority ==
    clsCalls > 0 =>
        /\ clsOut \in Shapes
        /\ clsOut = (CASE clsType = "Void" -> "catVoid"
                       [] clsType # "Void" /\ ClsFormTagged -> "catForm"
                       [] clsType # "Void" /\ ~ClsFormTagged /\ ClsHasBody -> "catMixed"
                       [] /\ clsType # "Void" /\ ~ClsFormTagged /\ ~ClsHasBody
                          /\ (ClsParamTagged \/ ClsRaw) -> "catParams"
                       [] OTHER -> "catBodyOnly")
        /\ clsType \in DOMAIN clsSeen
        /\ clsOut = clsSeen[clsType]

\* A type with a form-tagged field, a path-tagged field and a Body field
\* was classified a second time, as MultipartForm.
C8_Witness ==
    /\ clsCalls = MaxClassifyCalls
    /\ clsType = "UploadNoteReq"
    /\ ClsFormTagged /\ ClsHasBody /\ ClsParamTagged
    /\ Cardinality(DOMAIN clsSeen) < clsCalls
    /\ clsOut = "catForm"

(***************************************************************************)
(* request.go: the scalar converter, called once per bound parameter.      *)
(***************************************************************************)
VARIABLES cvtType, cvtValue, cvtState, cvtOut

cvtVars == <<cvtType, cvtValue, cvtState, cvtOut>>

\* The types of the fields setFieldValue is called on.
ConvertedTypes ==
    {"string", "int", "int8", "int16", "int32", "int64", "uint", "uint8",
     "float32", "float64", "bool", "Duration", "[]string", "Time"}

\* The non-empty strings it is handed.
ConvertedValues == {"42", "-7", "0", "1.5", "true", "5s", "1m", "abc", "admin"}

CvtInit ==
    /\ cvtType = "string"
    /\ cvtValue = ""
    /\ cvtState = "none"
    /\ cvtOut = SetErr

\* setFieldValue(field, value) runs to its return.  It reads nothing but
\* its arguments, so a behaviour makes one call.
SetFieldValue(ty, value) ==
    /\ cvtState = "none"
    /\ cvtType' = ty
    /\ cvtValue' = value
    /\ cvtState' = "done"
    /\ cvtOut' = setFieldValue(ty, value)

CvtNext == \E ty \in ConvertedTypes, value \in ConvertedValues : SetFieldValue(ty, value)

\* The strings of the model that parse as each kind of value.
IntegerStrings == {"42", "-7", "0"}
FloatStrings == {"42", "-7", "0", "1.5"}
BoolStrings == {"0", "true"}
DurationStrings == {"5s", "1m", "0"}

\* The converted string parses as the target type, for the target types
\* the claim calls supported with every signed integer kind among them.
ParsesAsStated ==
    CASE cvtType = "Duration" -> cvtValue \in DurationStrings
      [] cvtType # "Duration" /\ KindOf(cvtType) = "string" -> TRUE
      [] cvtType # "Duration"
         /\ KindOf(cvtType) \in {"int", "int8", "int16", "int32", "int64"} ->
            cvtValue \in IntegerStrings
      [] KindOf(cvtType) = "float64" -> cvtValue \in FloatStrings
      [] KindOf(cvtType) = "bool" -> cvtValue \in BoolStrings
      [] OTHER -> FALSE

\* C17 as stated: setFieldValue accepts string, every signed integer kind,
\* float64, bool and the duration type, fails for these only when the
\* string does not parse, and fails for every other kind.
C17_AsStated == cvtState = "done" => (cvtOut.ok <=> ParsesAsStated)

\* C17, amended: the signed integer kinds accepted are int and int64 only.
\* setFieldValue succeeds exactly for a string target, an int or int64
\* target and a base-10 integer, a float64 target and a float literal, a
\* bool target and a boolean literal, and the duration type and a duration
\* literal (42 is none); a target of any other kind, int8, int16, int32 and
\* the unsigned kinds among them, is an error whatever the string.
C17_SupportedKinds ==
    cvtState = "done" =>
        /\ cvtOut.ok <=>
              \/ cvtType = "Duration" /\ cvtValue \in DurationStrings
              \/ cvtType = "string"
              \/ cvtType \in {"int", "int64"} /\ cvtValue \in IntegerStrings
              \/ cvtType = "float64" /\ cvtValue \in FloatStrings
              \/ cvtType = "bool" /\ cvtValue \in BoolStrings
        /\ (cvtOut.ok /\ cvtType = "string") => cvtOut.v = cvtValue
        /\ (cvtOut.ok /\ cvtType = "Duration" /\ cvtValue = "5s") => cvtOut.v = 5000
        /\ ~cvtOut.ok => cvtOut = SetErr

\* 42 was converted for an int32 field and refused.
C17_Witness ==
    /\ cvtState = "done"
    /\ cvtType = "int32"
    /\ cvtValue = "42"
    /\ ~cvtOut.ok

vars == <<regVars, buildVars, valVars, negVars, srvVars, clsVars, cvtVars, hpVars, grpVars>>

Init ==
    RegInit /\ BuildInit /\ ValInit /\ NegInit /\ SrvInit /\ ClsInit /\ CvtInit
    /\ HpInit /\ GrpInit

RegNext ==
    \/ \E t \in RootTypes : CallTypeToSchema(t)
    \/ \E t \in RootTypes : CallOverflows(t)

Next == RegNext /\ UNCHANGED <<buildVars, valVars, negVars, srvVars, clsVars, cvtVars, hpVars, grpVars>>

Spec == Init /\ [][Next]_vars

NextBuild == BuildNext /\ UNCHANGED <<regVars, valVars, negVars, srvVars, clsVars, cvtVars, hpVars, grpVars>>

SpecBuild == Init /\ [][NextBuild]_vars

NextValidate == ValNext /\ UNCHANGED <<regVars, buildVars, negVars, srvVars, clsVars, cvtVars, hpVars, grpVars>>

SpecValidate == Init /\ [][NextValidate]_vars

NextNegotiate == NegNext /\ UNCHANGED <<regVars, buildVars, valVars, srvVars, clsVars, cvtVars, hpVars, grpVars>>

SpecNegotiate == Init /\ [][NextNegotiate]_vars

NextServe == SrvNext /\ UNCHANGED <<regVars, buildVars, valVars, negVars, clsVars, cvtVars, hpVars, grpVars>>

SpecServe == Init /\ [][NextServe]_vars

NextClassify ==
    ClsNext /\ UNCHANGED <<regVars, buildVars, valVars, negVars, srvVars, cvtVars, hpVars, grpVars>>

SpecClassify == Init /\ [][NextClassify]_vars

NextConvert ==
    CvtNext /\ UNCHANGED <<regVars, buildVars, valVars, negVars, srvVars, clsVars, hpVars,
                           grpVars>>

SpecConvert == Init /\ [][NextConvert]_vars

NextHeap ==
    HpNext /\ UNCHANGED <<regVars, buildVars, valVars, negVars, srvVars, clsVars,
                          cvtVars, grpVars>>

SpecHeap == Init /\ [][NextHeap]_vars

NextGroup ==
    GrpNext /\ UNCHANGED <<regVars, buildVars, valVars, negVars, srvVars, clsVars,
                           cvtVars, hpVars>>

SpecGroup == Init /\ [][NextGroup]_vars

====
